---- MODULE Spec2Model ----
(***************************************************************************)
(* bevy_rand: seed components, entropy components, the source -> target    *)
(* relationship and the observer-driven reseeding protocol, over the       *)
(* host's deferred command queue.                                          *)
(*                                                                         *)
(* The bit-generation algorithms are an opaque capability: a generator is  *)
(* the pair (seed, byte position), and the bytes it produces at a position *)
(* are the term <<seed, position, width>>.  A seed is either a literal     *)
(* seed <<n>> or such a term.                                              *)
(***************************************************************************)
EXTENDS Naturals, Sequences, FiniteSets, TLC

VARIABLES
    seed,       \* seed[e]: the RngSeed component of entity e, or NoSeed
    rng,        \* rng[e]: the Entropy component of entity e, or NoRng
    source,     \* source[e]: the RngSource component of e (its source entity), or NoEntity
    links,      \* links[e]: the RngLinks component of e (its targets, in order); <<>> when absent
    isGlobal,   \* the entities carrying the Global marker
    life,       \* life[e]: "free" (no such entity yet), "reserved" (its spawn is queued),
                \*          "alive" or "dead" (despawned)
    orphaned,   \* the entities that lost their RngSource because their source was despawned
    spawned,    \* <<t, src>>: t was spawned related to src since the last flush began
    linked_spawn, \* whether the host despawns the targets of a despawned RngLinks holder
    local,      \* local[th]: the thread-local SOURCE of thread th, the ThreadLocalEntropy
                \*            handles held on it and the &mut views of the SOURCE that are live
    queue,      \* the deferred command queue, head first
    out,        \* out[e]: the values drawn from e's Entropy by systems, in order
    drawn,      \* drawn[e]: bytes taken from e's Entropy since its RngSeed was last inserted
    reseeded,   \* the entities whose RngSeed was replaced since the last flush began
    flushed,    \* the number of commands the last flush began with, until a system runs again
    phase,      \* "init" (plugin not built), "step" (systems run), "flush" (queue is applied)
    ops,        \* number of system operations performed
    last,       \* the operation or command performed last
    plugin,     \* the seed the EntropyPlugin was constructed with, or NoSeed
    twin        \* a second run of the same operations (used by SpecTwin)

worldVars == <<seed, rng, source, links, isGlobal, life, orphaned, spawned, linked_spawn,
               queue, out, drawn, reseeded, flushed, phase, ops, last, plugin, twin>>

vars == <<local, seed, rng, source, links, isGlobal, life, orphaned, spawned, linked_spawn, queue, out, drawn,
          reseeded, flushed, phase, ops, last, plugin, twin>>

-----------------------------------------------------------------------------
(* Bounds of the model *)

\* System operations per run.
MaxOps == 3
\* Commands a step may leave in the queue for the next flush.
MaxQueue == 2
\* A seed derived through this many forks is not forked from again (only a
\* cyclic relationship graph gets there).
MaxDepth == 4
\* ThreadLocalEntropy handles a thread holds at most.
MaxHandles == 2
\* Draws a thread makes from its thread-local generator at most.
MaxDraws == 2

\* The entities: the Global source (spawned first) and two more.
Entity == 1..3

-----------------------------------------------------------------------------
(* Program constants *)

WyRandSeedBytes == 8
ChaCha8SeedBytes == 32
U64Bytes == 8
U32Bytes == 4

Kinds == {"WyRand", "ChaCha8Rng"}
SeedBytes(kind) == IF kind = "WyRand" THEN WyRandSeedBytes ELSE ChaCha8SeedBytes

\* Literal seeds: [2; 8] and [3; 8] of the tests.
RootSeeds == {<<2>>, <<3>>}
\* What an OS entropy draw may return.
EntropySeeds == {<<7>>, <<9>>}

NoSeed == <<>>
NoRng == [none |-> TRUE]
NoEntity == 0

\* The threads of the process.
Thread == {1, 2}

\* No thread has touched its thread-local SOURCE: no generator, no handle.
NoLocal ==
    [th \in Thread |-> [cache |-> NoRng, handles |-> 0, view |-> <<>>,
                        pc |-> "idle", draws |-> 0, val |-> NoSeed, prev |-> 0]]

-----------------------------------------------------------------------------
(* The RNG capability *)

\* SeedableRng::from_seed: a generator at position zero of the seed's stream.
from_seed(s) == [seed |-> s, pos |-> 0]

\* RngCore::fill_bytes on a generator: the n bytes at its position.
Bytes(r, n) == <<r.seed, r.pos, n>>

\* The generator after producing n bytes.
Advance(r, n) == [r EXCEPT !.pos = @ + n]

\* RngCore::fill_bytes: the bytes produced and the generator left behind.
fill_bytes(r, n) == [val |-> Bytes(r, n), rng |-> Advance(r, n)]

\* RngCore::next_u64.
next_u64(r) == fill_bytes(r, U64Bytes)

\* The number of forks a seed was derived through, plus one; 0 for no seed.
RECURSIVE Depth(_)
Depth(s) == IF s = NoSeed THEN 0 ELSE IF Len(s) = 1 THEN 1 ELSE 1 + Depth(s[1])

-----------------------------------------------------------------------------
(* The forking protocol (traits.rs), for a source generator of kind WyRand *)

\* RngSeed::from_seed: the seed component wraps the seed value.
RngSeed(s) == s

\* fork_seed on a copy of the generator: the source is left where it was.
fork_seed_copy(r) ==
    [val |-> RngSeed(fill_bytes(r, SeedBytes("WyRand")).val), rng |-> r]

\* ForkableSeed::fork_seed.
fork_seed(r) ==
    LET f == fill_bytes(r, SeedBytes("WyRand"))
    IN  [val |-> RngSeed(f.val), rng |-> f.rng]

\* fork_as_seed filling a seed of the source's width.
fork_as_seed_source(r, T) ==
    LET f == fill_bytes(r, SeedBytes("WyRand"))
    IN  [val |-> RngSeed(f.val), rng |-> f.rng]

\* ForkableAsSeed::fork_as_seed::<T>.
fork_as_seed(r, T) ==
    LET f == fill_bytes(r, SeedBytes(T))
    IN  [val |-> RngSeed(f.val), rng |-> f.rng]

\* ForkableInnerSeed::fork_inner_seed.
fork_inner_seed(r) ==
    LET f == fill_bytes(r, SeedBytes("WyRand"))
    IN  [val |-> f.val, rng |-> f.rng]

\* from_rng seeding from one u64 whatever the kind.
from_rng_u64(r, T) ==
    LET f == next_u64(r)
    IN  [val |-> from_seed(f.val), rng |-> f.rng]

\* SeedableRng::from_rng for kind T: a seed of T's width is filled from the
\* source and the generator is built from it.
from_rng(r, T) ==
    LET f == fill_bytes(r, SeedBytes(T))
    IN  [val |-> from_seed(f.val), rng |-> f.rng]

\* ForkableRng::fork_rng.
fork_rng(r) == from_rng(r, "WyRand")

\* ForkableAsRng::fork_as::<T>.
fork_as(r, T) == from_rng(r, T)

\* ForkableInnerRng::fork_inner.
fork_inner(r) == from_rng(r, "WyRand")

-----------------------------------------------------------------------------
(* The world: components per entity and the deferred command queue *)

\* hooked: the commands queued by hooks and observers while one command is applied.
World ==
    [seed |-> seed, rng |-> rng, source |-> source, links |-> links,
     isGlobal |-> isGlobal, life |-> life, orphaned |-> orphaned, spawned |-> spawned,
     linked_spawn |-> linked_spawn,
     queue |-> queue, out |-> out, drawn |-> drawn,
     reseeded |-> reseeded, hooked |-> <<>>]

\* A world whose entities are those of the set given, without components.
WorldOf(existing) ==
    [seed |-> [e \in Entity |-> NoSeed], rng |-> [e \in Entity |-> NoRng],
     source |-> [e \in Entity |-> NoEntity], links |-> [e \in Entity |-> <<>>],
     isGlobal |-> {},
     life |-> [e \in Entity |-> IF e \in existing THEN "alive" ELSE "free"],
     orphaned |-> {}, spawned |-> {}, linked_spawn |-> FALSE, queue |-> <<>>,
     out |-> [e \in Entity |-> <<>>], drawn |-> [e \in Entity |-> 0],
     reseeded |-> {}, hooked |-> <<>>]

\* A world with two entities and no components; entity 1 is for the plugin to spawn.
EmptyWorld == WorldOf({2, 3})

\* A queued command.
Cmd(op, e, arg) == [op |-> op, e |-> e, arg |-> arg]

\* A hook or an observer queues commands while a command is applied.
Nested(w, cmds) == [w EXCEPT !.hooked = @ \o cmds]

\* The commands queued while a command was applied are applied right after
\* it, in the order queued, before the rest of the queue.
Settle(w) == [w EXCEPT !.queue = w.hooked \o @, !.hooked = <<>>]

\* A buffer that takes the newest command first.
Submit_front(w, cmd) == [w EXCEPT !.queue = <<cmd>> \o @]

\* Commands queued by a system go to the end of its buffer.
Submit(w, cmd) == [w EXCEPT !.queue = Append(@, cmd)]

Alive(w, e) == e # NoEntity /\ w.life[e] = "alive"
HasRng(w, e) == w.rng[e] # NoRng
HasSeed(w, e) == w.seed[e] # NoSeed
HasLinks(w, e) == w.links[e] # <<>>

\* on_insert that leaves an Entropy already present alone.
on_insert_if_new(w, e) ==
    IF HasRng(w, e)
    THEN w
    ELSE Nested(w, <<Cmd("insert_entropy", e, from_seed(w.seed[e]))>>)

\* on_insert that re-keys the stream and keeps the position of the old Entropy.
on_insert_keep(w, e) ==
    Nested(w, <<Cmd("insert_entropy", e,
                    [seed |-> w.seed[e],
                     pos |-> IF HasRng(w, e) THEN w.rng[e].pos ELSE 0])>>)

\* RngSeed::on_insert: queue the insertion of Entropy::from_seed(seed).
on_insert(w, e) ==
    Nested(w, <<Cmd("insert_entropy", e, from_seed(w.seed[e]))>>)

\* on_remove that leaves the Entropy in place.
on_remove_none(w, e) == w

\* RngSeed::on_remove: queue the removal of the Entropy component.
on_remove(w, e) ==
    Nested(w, <<Cmd("remove_entropy", e, NoSeed)>>)

\* Inserting an RngSeed component (replacing the one present) runs on_insert.
\* A command addressed to a despawned entity writes nothing.
InsertRngSeed(w, e, s) ==
    IF ~Alive(w, e) THEN w ELSE
    on_insert([w EXCEPT !.seed[e] = s, !.drawn[e] = 0,
                        !.reseeded = IF HasSeed(w, e) THEN @ \cup {e} ELSE @], e)

\* Removing the RngSeed component runs on_remove when the component is there.
RemoveRngSeed(w, e) ==
    IF HasSeed(w, e)
    THEN [on_remove(w, e) EXCEPT !.seed[e] = NoSeed]
    ELSE w

\* Generator f.rng replaces e's Entropy after f was taken from it.
TakeFrom(w, e, f) ==
    [w EXCEPT !.rng[e] = f.rng, !.drawn[e] = @ + (f.rng.pos - w.rng[e].pos)]

\* trigger_seed_children that never emits SeedLinked.
trigger_seed_children_never(w, e) == w

\* trigger_seed_children: the OnInsert observer of Entropy.
trigger_seed_children(w, e) ==
    IF HasLinks(w, e)
    THEN Nested(w, <<Cmd("SeedLinked", e, NoSeed)>>)
    ELSE w

\* An insertion that leaves an Entropy already there in place.
InsertEntropy_keep(w, e, r) ==
    IF ~Alive(w, e) THEN w ELSE
    trigger_seed_children([w EXCEPT !.rng[e] = IF HasRng(w, e) THEN @ ELSE r], e)

\* Inserting an Entropy component triggers the OnInsert observer.
InsertEntropy(w, e, r) ==
    IF ~Alive(w, e) THEN w ELSE
    trigger_seed_children([w EXCEPT !.rng[e] = r], e)

RemoveEntropy(w, e) == [w EXCEPT !.rng[e] = NoRng]

RECURSIVE ForkEach(_, _)

\* ForkEach forking for the last target first.
ForkEach_backwards(r, ts) ==
    IF ts = <<>>
    THEN [batch |-> <<>>, rng |-> r]
    ELSE LET rest == ForkEach(r, Tail(ts))
             f == fork_seed(rest.rng)
         IN  [batch |-> <<<<Head(ts), f.val>>>> \o rest.batch, rng |-> f.rng]

\* The seeds forked for the targets ts, in order, from generator r:
\* [batch |-> <<<<target, seed>>, ...>>, rng |-> the generator left behind].
ForkEach(r, ts) ==
    IF ts = <<>>
    THEN [batch |-> <<>>, rng |-> r]
    ELSE LET f == fork_seed(r)
             rest == ForkEach(f.rng, Tail(ts))
         IN  [batch |-> <<<<Head(ts), f.val>>>> \o rest.batch, rng |-> rest.rng]

\* A seed_children that forks from a copy of the source's Entropy.
seed_children_copy(w, e) ==
    IF HasRng(w, e) /\ HasLinks(w, e)
    THEN Nested(w, <<Cmd("insert_batch", e, ForkEach(w.rng[e], w.links[e]).batch)>>)
    ELSE w

\* seed_children seeding the first target only.
seed_children_first(w, e) ==
    IF HasRng(w, e) /\ HasLinks(w, e)
    THEN LET f == ForkEach(w.rng[e], <<Head(w.links[e])>>)
         IN  Nested(TakeFrom(w, e, f), <<Cmd("insert_batch", e, f.batch)>>)
    ELSE w

\* seed_children: the observer of SeedLinked.
seed_children(w, e) ==
    IF HasRng(w, e) /\ HasLinks(w, e)
    THEN LET f == ForkEach(w.rng[e], w.links[e])
         IN  Nested(TakeFrom(w, e, f), <<Cmd("insert_batch", e, f.batch)>>)
    ELSE w

\* Commands::insert_batch of (entity, RngSeed) pairs: one command inserts
\* every seed; each insertion runs RngSeed::on_insert.
RECURSIVE InsertBatch(_, _)
InsertBatch(w, batch) ==
    IF batch = <<>>
    THEN w
    ELSE InsertBatch(InsertRngSeed(w, Head(batch)[1], Head(batch)[2]), Tail(batch))

\* A seed_from_parent that forks from the start of the source's stream.
seed_from_parent_restart(w, t) ==
    LET p == w.source[t]
    IN  IF p # NoEntity /\ HasRng(w, p) /\ HasLinks(w, p)
        THEN LET f == fork_seed(from_seed(w.seed[p]))
             IN  Nested(TakeFrom(w, p, f), <<Cmd("insert_seed", t, f.val)>>)
        ELSE w

\* seed_from_parent pulling from any entity that has targets when the target
\* has no source.
seed_from_parent_any(w, t) ==
    LET ps == IF w.source[t] # NoEntity THEN {w.source[t]}
              ELSE {x \in Entity : HasRng(w, x) /\ HasLinks(w, x)}
    IN  IF \E p \in ps : HasRng(w, p) /\ HasLinks(w, p)
        THEN LET p == CHOOSE p \in ps : HasRng(w, p) /\ HasLinks(w, p)
                 f == fork_seed(w.rng[p])
             IN  Nested(TakeFrom(w, p, f), <<Cmd("insert_seed", t, f.val)>>)
        ELSE w

\* seed_from_parent: the observer of SeedFromSource.
seed_from_parent(w, t) ==
    LET p == w.source[t]
    IN  IF p # NoEntity /\ HasRng(w, p) /\ HasLinks(w, p)
        THEN LET f == fork_seed(w.rng[p])
             IN  Nested(TakeFrom(w, p, f), <<Cmd("insert_seed", t, f.val)>>)
        ELSE w

\* GlobalEntropy: the single entity with Global and Entropy, if there is one.
GlobalSources(w) == {g \in w.isGlobal : HasRng(w, g)}

\* A seed_from_global that takes the first Global source its query yields.
seed_from_global_first(w, t) ==
    IF GlobalSources(w) # {} /\ Alive(w, t)
    THEN LET g == CHOOSE g \in GlobalSources(w) : \A h \in GlobalSources(w) : g <= h
             f == fork_seed(w.rng[g])
         IN  Nested(TakeFrom(w, g, f), <<Cmd("insert_seed", t, f.val)>>)
    ELSE w

\* seed_from_global forking from the source without looking for the target.
seed_from_global_any(w, t) ==
    IF Cardinality(GlobalSources(w)) = 1
    THEN LET g == CHOOSE g \in GlobalSources(w) : TRUE
             f == fork_seed(w.rng[g])
         IN  Nested(TakeFrom(w, g, f), <<Cmd("insert_seed", t, f.val)>>)
    ELSE w

\* seed_from_global: the observer of SeedFromGlobal. It runs when there is
\* exactly one global source, and forks when the target still exists.
seed_from_global(w, t) ==
    IF Cardinality(GlobalSources(w)) = 1 /\ Alive(w, t)
    THEN LET g == CHOOSE g \in GlobalSources(w) : TRUE
             f == fork_seed(w.rng[g])
         IN  Nested(TakeFrom(w, g, f), <<Cmd("insert_seed", t, f.val)>>)
    ELSE w

\* s without the entity t.
Without(s, t) == SelectSeq(s, LAMBDA x : x # t)

\* An insertion of RngSource that skips the on_replace hook when the source
\* named is the one the target already has.
InsertRngSource_again(w, src, t) ==
    IF t = src \/ ~Alive(w, src) \/ ~Alive(w, t)
    THEN w
    ELSE LET old == w.source[t]
             w1 == IF old = NoEntity \/ old = src THEN w
                   ELSE [w EXCEPT !.links[old] = Without(@, t)]
         IN  [w1 EXCEPT !.source[t] = src, !.links[src] = Append(@, t)]

\* Inserting RngSource that leaves t in the RngLinks of its previous source.
InsertRngSource_keep(w, src, t) ==
    IF t = src \/ ~Alive(w, src) \/ ~Alive(w, t)
    THEN w
    ELSE [w EXCEPT !.source[t] = src, !.links[src] = Append(@, t)]

\* Inserting RngSource(src) on t: the relationship hooks take t out of its
\* previous source's RngLinks and add it at the end of src's RngLinks.
\* An entity cannot be its own source.
InsertRngSource(w, src, t) ==
    IF t = src \/ ~Alive(w, src) \/ ~Alive(w, t)
    THEN w
    ELSE LET old == w.source[t]
             w1 == IF old = NoEntity THEN w
                   ELSE [w EXCEPT !.links[old] = Without(@, t)]
         IN  [w1 EXCEPT !.source[t] = src, !.links[src] = Append(@, t)]

\* add_related linking the first target only.
add_related_first(w, src, ts) ==
    IF ts = <<>> THEN w ELSE InsertRngSource(w, src, Head(ts))

\* EntityCommands::add_related::<RngSource>(targets), queued by link_target_rngs
\* and by the link_targets observer.
RECURSIVE add_related(_, _, _)
add_related(w, src, ts) ==
    IF ts = <<>>
    THEN w
    ELSE add_related(InsertRngSource(w, src, Head(ts)), src, Tail(ts))

\* A removal of RngSource that empties the source's whole collection.
RemoveRngSource_all(w, t, by) ==
    LET p == w.source[t]
    IN  IF p = NoEntity
        THEN w
        ELSE [w EXCEPT !.source[t] = NoEntity,
                       !.links = IF Alive(w, p) THEN [@ EXCEPT ![p] = <<>>] ELSE @,
                       !.orphaned = IF by = p THEN @ \cup {t} ELSE @]

\* Removing RngSource from t (Relationship::on_replace): t leaves the RngLinks
\* of its source. by is the despawned source whose RngLinks asked for the
\* removal, or NoEntity when a system asked for it.
RemoveRngSource(w, t, by) ==
    LET p == w.source[t]
    IN  IF p = NoEntity
        THEN w
        ELSE [w EXCEPT !.source[t] = NoEntity,
                       !.links = IF Alive(w, p) THEN [@ EXCEPT ![p] = Without(@, t)] ELSE @,
                       !.orphaned = IF by = p THEN @ \cup {t} ELSE @]

\* The commands a hook of RngLinks queues, one for each target.
ForTargets(op, ts, arg) == [i \in 1..Len(ts) |-> Cmd(op, ts[i], arg)]

\* RelationshipTarget::on_despawn registered without regard to the host's policy.
on_despawn_always(w, e) == Nested(w, ForTargets("despawn", w.links[e], NoSeed))

\* RelationshipTarget::on_despawn, registered for RngLinks: the host despawns
\* the targets when linked spawn is in force.
on_despawn(w, e) ==
    IF w.linked_spawn
    THEN Nested(w, ForTargets("despawn", w.links[e], NoSeed))
    ELSE w

\* RngLinks without its on_replace hook.
on_replace_none(w, e) == w

\* RelationshipTarget::on_replace, registered for RngLinks: queue the removal
\* of RngSource from every target.
on_replace(w, e) == Nested(w, ForTargets("remove_source", w.links[e], e))

\* Despawning e: the on_despawn, on_replace and on_remove hooks of its
\* components run, then the entity and its components are gone.
Despawn(w, e) ==
    IF ~Alive(w, e)
    THEN w
    ELSE LET w1 == on_replace(on_despawn(w, e), e)
             w2 == RemoveRngSeed(RemoveRngSource(w1, e, NoEntity), e)
         IN  [w2 EXCEPT !.life[e] = "dead", !.seed[e] = NoSeed, !.rng[e] = NoRng,
                        !.links[e] = <<>>, !.isGlobal = @ \ {e}]

\* RelatedSpawnerCommands::spawn: the entity reserved as t is spawned with
\* RngSource(src).
SpawnRelated(w, src, t) ==
    InsertRngSource([w EXCEPT !.life[t] = "alive", !.spawned = @ \cup {<<t, src>>}], src, t)

\* Applying the command at the head of the queue.
ApplyCmd(w) ==
    LET c == Head(w.queue)
        w0 == [w EXCEPT !.queue = Tail(@)]
    IN  Settle(
        CASE c.op = "insert_seed" -> InsertRngSeed(w0, c.e, c.arg)
          [] c.op = "remove_seed" -> RemoveRngSeed(w0, c.e)
          [] c.op = "insert_entropy" -> InsertEntropy(w0, c.e, c.arg)
          [] c.op = "remove_entropy" -> RemoveEntropy(w0, c.e)
          [] c.op = "insert_batch" -> InsertBatch(w0, c.arg)
          [] c.op = "SeedLinked" -> seed_children(w0, c.e)
          [] c.op = "SeedFromSource" -> seed_from_parent(w0, c.e)
          [] c.op = "SeedFromGlobal" -> seed_from_global(w0, c.e)
          [] c.op = "add_related" -> add_related(w0, c.e, c.arg)
          [] c.op = "remove_source" -> RemoveRngSource(w0, c.e, c.arg)
          [] c.op = "despawn" -> Despawn(w0, c.e)
          [] c.op = "spawn" -> SpawnRelated(w0, c.arg, c.e))

-----------------------------------------------------------------------------
(* Operations of the application *)

\* The plugin seed taken from entropy whatever was configured.
PluginSeed_entropy(cfg, entropy) == entropy

\* The seed of the Global entity: the configured seed, or RngSeed::default
\* (a seed from entropy) when none is configured.
PluginSeed(cfg, entropy) == IF cfg = NoSeed THEN entropy ELSE cfg

\* A build that spawns the seeded entity without the Global marker.
build_unmarked(w, cfg, entropy, g) ==
    Settle(InsertRngSeed([w EXCEPT !.life[g] = "alive"], g,
                         RngSeed(PluginSeed(cfg, entropy))))

\* EntropyPlugin::build: spawn the Global entity with its seed and flush.
\* g is the entity spawned.
build(w, cfg, entropy, g) ==
    Settle(InsertRngSeed([w EXCEPT !.isGlobal = @ \cup {g}, !.life[g] = "alive"], g,
                         RngSeed(PluginSeed(cfg, entropy))))

\* RngEntityCommands::reseed.
reseed(w, e, s) == Submit(w, Cmd("insert_seed", e, RngSeed(s)))

\* EntityCommands::remove::<RngSeed>.
remove_seed(w, e) == Submit(w, Cmd("remove_seed", e, NoSeed))

\* RngEntityCommands::link_target_rngs.
link_target_rngs(w, e, ts) == Submit(w, Cmd("add_related", e, ts))

\* A reseed_linked that forks for the targets linked when it is called and
\* queues the batch.
reseed_linked_snapshot(w, e) ==
    IF HasRng(w, e) /\ HasLinks(w, e)
    THEN LET f == ForkEach(w.rng[e], w.links[e])
         IN  Submit(TakeFrom(w, e, f), Cmd("insert_batch", e, f.batch))
    ELSE w

\* A reseed_linked that runs the observer inside the call.
reseed_linked_now(w, e) == Settle(seed_children(w, e))

\* RngEntityCommands::reseed_linked.
reseed_linked(w, e) == Submit(w, Cmd("SeedLinked", e, NoSeed))

\* RngEntityCommands::reseed_from_source.
reseed_from_source(w, e) == Submit(w, Cmd("SeedFromSource", e, NoSeed))

\* RngEntityCommands::reseed_from_global.
reseed_from_global(w, e) == Submit(w, Cmd("SeedFromGlobal", e, NoSeed))

\* EntityCommands::remove::<RngSource>.
unlink(w, t) == Submit(w, Cmd("remove_source", t, NoEntity))

\* EntityCommands::despawn.
despawn(w, e) == Submit(w, Cmd("despawn", e, NoSeed))

\* The n entities a spawner reserves: the free ones of lowest id.
RECURSIVE Reserve(_, _)
Reserve(free, n) ==
    IF n = 0 \/ free = {}
    THEN <<>>
    ELSE LET t == CHOOSE x \in free : \A y \in free : x <= y
         IN  <<t>> \o Reserve(free \ {t}, n - 1)

\* A with_target_rngs that has each spawned target pull its own seed from the
\* source and leaves the other targets alone.
with_target_rngs_new_only(w, e, n) ==
    LET ts == Reserve({t \in Entity : w.life[t] = "free"}, n)
    IN  [w EXCEPT !.queue = @ \o [i \in 1..Len(ts) |-> Cmd("spawn", ts[i], e)]
                                \o [i \in 1..Len(ts) |-> Cmd("SeedFromSource", ts[i], NoSeed)],
                  !.life = [t \in Entity |-> IF \E i \in 1..Len(ts) : ts[i] = t
                                             THEN "reserved" ELSE @[t]]]

\* with_target_rngs that spawns and links without asking for seeds.
with_target_rngs_unseeded(w, e, n) ==
    LET ts == Reserve({t \in Entity : w.life[t] = "free"}, n)
    IN  [w EXCEPT !.queue = @ \o [i \in 1..Len(ts) |-> Cmd("spawn", ts[i], e)],
                  !.life = [t \in Entity |-> IF \E i \in 1..Len(ts) : ts[i] = t
                                             THEN "reserved" ELSE @[t]]]

\* RngEntityCommands::with_target_rngs (with_target_rngs_as): spawn n entities
\* related to e, then reseed_linked.
with_target_rngs(w, e, n) ==
    LET ts == Reserve({t \in Entity : w.life[t] = "free"}, n)
    IN  reseed_linked(
            [w EXCEPT !.queue = @ \o [i \in 1..Len(ts) |-> Cmd("spawn", ts[i], e)],
                      !.life = [t \in Entity |-> IF \E i \in 1..Len(ts) : ts[i] = t
                                                 THEN "reserved" ELSE @[t]]], e)

\* A draw served from one stream shared by every entity.
draw_shared(w, e) ==
    LET g == CHOOSE x \in Entity : HasRng(w, x)
        f == next_u64(w.rng[g])
    IN  [TakeFrom(w, g, f) EXCEPT !.out[e] = Append(@, f.val)]

\* A system draws a u64 from e's Entropy.
draw(w, e) ==
    LET f == next_u64(w.rng[e])
    IN  [TakeFrom(w, e, f) EXCEPT !.out[e] = Append(@, f.val)]

-----------------------------------------------------------------------------
(* The state machine *)

Commit(w) ==
    /\ seed' = w.seed
    /\ rng' = w.rng
    /\ source' = w.source
    /\ links' = w.links
    /\ isGlobal' = w.isGlobal
    /\ life' = w.life
    /\ orphaned' = w.orphaned
    /\ spawned' = w.spawned
    /\ linked_spawn' = w.linked_spawn
    /\ UNCHANGED local
    /\ queue' = w.queue
    /\ out' = w.out
    /\ drawn' = w.drawn
    /\ reseeded' = w.reseeded

\* Both runs perform F.
Step(F(_)) ==
    /\ Commit(F(World))
    /\ twin' = IF twin.on THEN [twin EXCEPT !.w = F(@)] ELSE twin

\* Sequences of distinct entities, none of them e, of length 1 or 2.
TargetLists(e) ==
    {<<t>> : t \in Entity \ {e}}
        \cup {<<t, u>> : <<t, u>> \in {x \in (Entity \ {e}) \X (Entity \ {e}) : x[1] # x[2]}}

\* Entities spawned without components; the plugin is constructed, not yet built.
InitWorld ==
    /\ seed = EmptyWorld.seed
    /\ rng = EmptyWorld.rng
    /\ source = EmptyWorld.source
    /\ links = EmptyWorld.links
    /\ isGlobal = EmptyWorld.isGlobal
    /\ orphaned = EmptyWorld.orphaned
    /\ spawned = EmptyWorld.spawned
    /\ queue = EmptyWorld.queue
    /\ out = EmptyWorld.out
    /\ drawn = EmptyWorld.drawn
    /\ reseeded = EmptyWorld.reseeded

Init ==
    /\ InitWorld
    /\ life = EmptyWorld.life
    /\ linked_spawn = EmptyWorld.linked_spawn
    /\ local = NoLocal
    /\ phase = "init"
    /\ ops = 0
    /\ flushed = 0
    /\ last = Cmd("none", NoEntity, NoSeed)
    /\ plugin \in {NoSeed, <<2>>}
    /\ twin = [on |-> FALSE, w |-> EmptyWorld]

\* The second run starts from the same plugin configuration.
InitTwin ==
    /\ InitWorld
    /\ life = EmptyWorld.life
    /\ linked_spawn = EmptyWorld.linked_spawn
    /\ local = NoLocal
    /\ phase = "init"
    /\ ops = 0
    /\ flushed = 0
    /\ last = Cmd("none", NoEntity, NoSeed)
    /\ plugin \in {NoSeed, <<2>>}
    /\ twin = [on |-> TRUE, w |-> EmptyWorld]

\* app.add_plugins(EntropyPlugin): each run draws its own entropy.
Build ==
    /\ phase = "init"
    /\ \E s1, s2 \in EntropySeeds :
        /\ Commit(build(World, plugin, s1, 1))
        /\ twin' = IF twin.on THEN [twin EXCEPT !.w = build(@, plugin, s2, 1)] ELSE twin
    /\ phase' = "flush"
    /\ flushed' = 1
    /\ last' = Cmd("build", 1, plugin)
    /\ UNCHANGED <<ops, plugin>>

\* A system operation that queues a command.
CanSubmit == phase = "step" /\ ops < MaxOps /\ Len(queue) < MaxQueue

Submitted(cmd) ==
    /\ phase' = phase
    /\ ops' = ops + 1
    /\ flushed' = 0
    /\ last' = cmd
    /\ UNCHANGED plugin

Reseed(e, s) ==
    /\ CanSubmit
    /\ Step(LAMBDA w : reseed(w, e, s))
    /\ Submitted(Cmd("reseed", e, s))

RemoveSeed(e) ==
    /\ CanSubmit
    /\ HasSeed(World, e)
    /\ Step(LAMBDA w : remove_seed(w, e))
    /\ Submitted(Cmd("remove", e, NoSeed))

Link(e, ts) ==
    /\ CanSubmit
    /\ HasSeed(World, e)
    /\ Step(LAMBDA w : link_target_rngs(w, e, ts))
    /\ Submitted(Cmd("link_target_rngs", e, ts))

ReseedLinked(e) ==
    /\ CanSubmit
    /\ HasSeed(World, e)
    /\ Step(LAMBDA w : reseed_linked(w, e))
    /\ Submitted(Cmd("reseed_linked", e, NoSeed))

ReseedFromSource(e) ==
    /\ CanSubmit
    /\ Step(LAMBDA w : reseed_from_source(w, e))
    /\ Submitted(Cmd("reseed_from_source", e, NoSeed))

ReseedFromGlobal(e) ==
    /\ CanSubmit
    /\ Step(LAMBDA w : reseed_from_global(w, e))
    /\ Submitted(Cmd("reseed_from_global", e, NoSeed))

\* A system with mutable access to e's Entropy draws from it at once.
Draw(e) ==
    /\ phase = "step" /\ ops < MaxOps
    /\ HasRng(World, e)
    /\ Step(LAMBDA w : draw(w, e))
    /\ Submitted(Cmd("draw", e, next_u64(rng[e]).val))

\* Two systems scheduled concurrently draw from different entities; the two
\* runs take them in opposite orders.
DrawBoth(e1, e2) ==
    /\ phase = "step" /\ ops + 1 < MaxOps
    /\ e1 # e2 /\ HasRng(World, e1) /\ HasRng(World, e2)
    /\ Commit(draw(draw(World, e1), e2))
    /\ twin' = IF twin.on THEN [twin EXCEPT !.w = draw(draw(@, e2), e1)] ELSE twin
    /\ phase' = phase
    /\ ops' = ops + 2
    /\ flushed' = 0
    /\ last' = Cmd("draw_both", e1, e2)
    /\ UNCHANGED plugin

\* A sync point that stirs the global source's generator.
BeginFlush_stirring(w) ==
    [w EXCEPT !.reseeded = {}, !.spawned = {},
              !.rng = [e \in Entity |->
                          IF e \in w.isGlobal /\ HasRng(w, e)
                          THEN Advance(w.rng[e], U64Bytes) ELSE w.rng[e]]]

\* The sync point after the systems of a step: the queue is applied.
BeginFlush(w) == [w EXCEPT !.reseeded = {}, !.spawned = {}]

Flush ==
    /\ phase = "step"
    /\ queue # <<>>
    /\ Step(BeginFlush)
    /\ phase' = "flush"
    /\ flushed' = Len(queue)
    /\ UNCHANGED <<ops, last, plugin>>

\* The command at the head forks from a seed already derived MaxDepth times.
TooDeep(w) ==
    LET c == Head(w.queue)
        from == CASE c.op = "SeedLinked" -> {c.e}
                  [] c.op = "SeedFromSource" -> {w.source[c.e]} \ {NoEntity}
                  [] c.op = "SeedFromGlobal" -> GlobalSources(w)
                  [] OTHER -> {}
    IN  \E e \in from : HasRng(w, e) /\ Depth(w.rng[e].seed) >= MaxDepth

\* One command of the queue is applied, with the hooks and observers it runs.
Apply ==
    /\ phase = "flush"
    /\ queue # <<>>
    /\ ~TooDeep(World)
    /\ Step(ApplyCmd)
    /\ phase' = IF queue' = <<>> THEN "step" ELSE "flush"
    /\ last' = Head(queue)
    /\ UNCHANGED <<ops, flushed, plugin>>

Next ==
    \/ Build
    \/ \E e \in Entity : Reseed(e, <<2>>)
    \/ \E e \in Entity : RemoveSeed(e)
    \/ \E e \in Entity : \E ts \in TargetLists(e) : Link(e, ts)
    \/ \E e \in Entity : ReseedLinked(e)
    \/ \E e \in Entity : ReseedFromSource(e)
    \/ \E e \in Entity : ReseedFromGlobal(e)
    \/ \E e \in Entity : Draw(e)
    \/ \E e1, e2 \in Entity : DrawBoth(e1, e2)
    \/ Flush
    \/ Apply

Spec == Init /\ [][Next]_vars

SpecTwin == InitTwin /\ [][Next]_vars

-----------------------------------------------------------------------------
(* The life of entities and links: spawning, unlinking and despawning *)

\* How many entities one with_target_rngs call spawns.
SpawnCounts == {1, 2}

\* The entities there are before the plugin is built.
Populations == {{2, 3}, {2}, {}}

\* The plugin is constructed with a seed; the host's policy for the targets
\* of a despawned source is either one.
InitLife ==
    /\ InitWorld
    /\ \E existing \in Populations : life = WorldOf(existing).life
    /\ linked_spawn \in BOOLEAN
    /\ local = NoLocal
    /\ phase = "init"
    /\ ops = 0
    /\ flushed = 0
    /\ last = Cmd("none", NoEntity, NoSeed)
    /\ plugin = <<2>>
    /\ twin = [on |-> FALSE, w |-> EmptyWorld]

Unlink(t) ==
    /\ CanSubmit
    /\ Alive(World, t) /\ source[t] # NoEntity
    /\ Step(LAMBDA w : unlink(w, t))
    /\ Submitted(Cmd("unlink", t, NoSeed))

DespawnEntity(e) ==
    /\ CanSubmit
    /\ Alive(World, e)
    /\ Step(LAMBDA w : despawn(w, e))
    /\ Submitted(Cmd("despawn_entity", e, NoSeed))

WithTargetRngs(e, n) ==
    /\ CanSubmit
    /\ Alive(World, e)
    /\ n <= Cardinality({t \in Entity : life[t] = "free"})
    /\ Step(LAMBDA w : with_target_rngs(w, e, n))
    /\ Submitted(Cmd("with_target_rngs", e, n))

NextLife ==
    \/ Build
    \/ \E e \in Entity : \E ts \in TargetLists(e) : Link(e, ts)
    \/ \E t \in Entity : Unlink(t)
    \/ \E e \in Entity : DespawnEntity(e)
    \/ \E e \in Entity : \E n \in SpawnCounts : WithTargetRngs(e, n)
    \/ \E e \in Entity : ReseedLinked(e)
    \/ \E e \in Entity : ReseedFromSource(e)
    \/ \E e \in Entity : ReseedFromGlobal(e)
    \/ Flush
    \/ Apply

SpecLife == InitLife /\ [][NextLife]_vars

-----------------------------------------------------------------------------
(* Seeds from the OS entropy source, which may fail *)

\* What OsRng.try_fill_bytes may do: fill the seed, or fail with OsError.
OsOutcomes ==
    {[ok |-> TRUE, bytes |-> s] : s \in EntropySeeds} \cup {[ok |-> FALSE, bytes |-> NoSeed]}

\* The seed R::Seed::default() that try_from_os_rng hands to the OS to fill.
ZeroSeed == <<0>>

\* try_from_os_rng that goes on with the unfilled seed when the OS fails.
try_from_os_rng_fallback(os) ==
    [ok |-> TRUE, val |-> RngSeed(IF os.ok THEN os.bytes ELSE ZeroSeed)]

\* SeedSource::try_from_os_rng: the ? returns the error before from_seed.
try_from_os_rng(os) ==
    IF os.ok
    THEN [ok |-> TRUE, val |-> RngSeed(os.bytes)]
    ELSE [ok |-> FALSE, val |-> NoSeed]

\* SeedSource::from_os_rng: expect panics on the error.
from_os_rng(os) ==
    LET r == try_from_os_rng(os)
    IN  [panic |-> ~r.ok, val |-> r.val]

\* RngEntityCommands::try_reseed_from_os_rng: the ? returns before the insert
\* is queued.
try_reseed_from_os_rng(w, e, os) ==
    LET r == try_from_os_rng(os)
    IN  IF r.ok THEN Submit(w, Cmd("insert_seed", e, r.val)) ELSE w

\* RngEntityCommands::reseed_from_os_rng, when from_os_rng does not panic.
reseed_from_os_rng(w, e, os) == Submit(w, Cmd("insert_seed", e, from_os_rng(os).val))

TryReseedFromOsRng(e) ==
    /\ CanSubmit
    /\ \E os \in OsOutcomes :
        /\ Step(LAMBDA w : try_reseed_from_os_rng(w, e, os))
        /\ Submitted(Cmd("try_reseed_from_os_rng", e, os))

\* A panic in a system ends the app.
ReseedFromOsRng(e) ==
    /\ CanSubmit
    /\ \E os \in OsOutcomes :
        /\ IF from_os_rng(os).panic
           THEN Step(LAMBDA w : w) /\ phase' = "panicked"
           ELSE Step(LAMBDA w : reseed_from_os_rng(w, e, os)) /\ phase' = phase
        /\ ops' = ops + 1
        /\ flushed' = 0
        /\ last' = Cmd("reseed_from_os_rng", e, os)
        /\ UNCHANGED plugin

-----------------------------------------------------------------------------
(* The forking protocol on its own: one Entropy component, forked from *)

\* The fork operations, in the order performed, are recorded in out[1] as
\* [op, T, pre, val]: the operation, the kind asked for, the generator
\* before it and the value returned.
Fork(op, T, f) == [op |-> op, T |-> T, pre |-> rng[1], val |-> f.val]

InitFork ==
    /\ \E s \in RootSeeds \cup EntropySeeds :
        /\ seed = [EmptyWorld.seed EXCEPT ![1] = RngSeed(s)]
        /\ rng = [EmptyWorld.rng EXCEPT ![1] = from_seed(s)]
    /\ life = [EmptyWorld.life EXCEPT ![1] = "alive"]
    /\ linked_spawn = EmptyWorld.linked_spawn
    /\ local = NoLocal
    /\ source = EmptyWorld.source
    /\ links = EmptyWorld.links
    /\ isGlobal = EmptyWorld.isGlobal
    /\ orphaned = EmptyWorld.orphaned
    /\ spawned = EmptyWorld.spawned
    /\ queue = EmptyWorld.queue
    /\ out = EmptyWorld.out
    /\ drawn = EmptyWorld.drawn
    /\ reseeded = EmptyWorld.reseeded
    /\ phase = "fork"
    /\ ops = 0
    /\ flushed = 0
    /\ last = Cmd("none", NoEntity, NoSeed)
    /\ plugin = NoSeed
    /\ twin = [on |-> FALSE, w |-> EmptyWorld]

\* f was taken from the Entropy of entity 1 by operation op.
Forked(op, T, f) ==
    /\ phase = "fork" /\ ops < MaxOps
    /\ Commit([TakeFrom(World, 1, f) EXCEPT !.out[1] = Append(@, Fork(op, T, f))])
    /\ ops' = ops + 1
    /\ last' = Cmd(op, 1, T)
    /\ UNCHANGED <<phase, flushed, plugin, twin>>

ForkSeed == Forked("fork_seed", "WyRand", fork_seed(rng[1]))
ForkAsSeed(T) == Forked("fork_as_seed", T, fork_as_seed(rng[1], T))
ForkInnerSeed == Forked("fork_inner_seed", "WyRand", fork_inner_seed(rng[1]))
ForkRng == Forked("fork_rng", "WyRand", fork_rng(rng[1]))
ForkAs(T) == Forked("fork_as", T, fork_as(rng[1], T))
ForkInner == Forked("fork_inner", "WyRand", fork_inner(rng[1]))
NextU64 == Forked("next_u64", "WyRand", next_u64(rng[1]))

NextFork ==
    \/ ForkSeed
    \/ \E T \in Kinds : ForkAsSeed(T)
    \/ ForkInnerSeed
    \/ ForkRng
    \/ \E T \in Kinds : ForkAs(T)
    \/ ForkInner
    \/ NextU64

SpecFork == InitFork /\ [][NextFork]_vars

-----------------------------------------------------------------------------
(* ThreadLocalEntropy: handles on the generator cached by each thread *)

\* The widths of next_u32 and next_u64.
DrawWidths == {U32Bytes, U64Bytes}

\* A SOURCE that is built anew from OS entropy at every access.
SOURCE_fresh(l, entropy) == from_seed(entropy)

\* thread_local! SOURCE: the first access on a thread builds the generator
\* from OS entropy; later accesses find it.
SOURCE(l, entropy) == IF l.cache = NoRng THEN from_seed(entropy) ELSE l.cache

\* ThreadLocalEntropy::get (ThreadLocalEntropy::new): one more handle, a
\* clone of the Rc, on the calling thread.
get(l, entropy) == [l EXCEPT !.cache = SOURCE(l, entropy), !.handles = @ + 1]

\* unsafe { &mut *self.0.get() }: the draw through handle h takes a &mut view.
open_view(l, h) == [l EXCEPT !.view = Append(@, h), !.pc = "open"]

\* The generator is advanced through the view.
generate(l, n) ==
    [l EXCEPT !.cache = Advance(@, n), !.val = Bytes(l.cache, n),
              !.pc = "done", !.draws = @ + 1]

\* A draw that returns with its view still live.
close_view_leak(l) == [l EXCEPT !.pc = "idle"]

\* The draw returns: the &mut does not outlive the closure (the method body).
close_view(l) ==
    [l EXCEPT !.view = SubSeq(@, 1, Len(@) - 1), !.pc = "idle",
              !.prev = l.view[Len(l.view)]]

\* A SOURCE that is one static of the process, the same for every thread.
Slot_static(th) == 1

\* thread_local!: the SOURCE a thread names is the one of that thread.
Slot(th) == th

\* What thread th works with: its handles and draws, and the SOURCE it names.
Mine(loc, th) == [loc[th] EXCEPT !.cache = loc[Slot(th)].cache]

\* Thread th has turned what it works with into l.
Put(loc, th, l) ==
    [[loc EXCEPT ![th] = [l EXCEPT !.cache = loc[th].cache]]
        EXCEPT ![Slot(th)].cache = l.cache]

InitLocal ==
    /\ InitWorld
    /\ life = EmptyWorld.life
    /\ linked_spawn = EmptyWorld.linked_spawn
    /\ local = NoLocal
    /\ phase = "local"
    /\ ops = 0
    /\ flushed = 0
    /\ last = Cmd("none", NoEntity, NoSeed)
    /\ plugin = NoSeed
    /\ twin = [on |-> FALSE, w |-> EmptyWorld]

\* Thread th obtains a handle; it is between draws.
Get(th) ==
    /\ phase = "local"
    /\ local[th].pc = "idle" /\ local[th].handles < MaxHandles
    /\ \E s \in EntropySeeds : local' = Put(local, th, get(Mine(local, th), s))
    /\ UNCHANGED worldVars

\* Thread th, between draws, begins a draw through its handle h.
OpenView(th, h) ==
    /\ phase = "local"
    /\ local[th].pc = "idle" /\ h <= local[th].handles /\ local[th].draws < MaxDraws
    /\ local' = Put(local, th, open_view(Mine(local, th), h))
    /\ UNCHANGED worldVars

Generate(th, n) ==
    /\ phase = "local"
    /\ local[th].pc = "open"
    /\ local' = Put(local, th, generate(Mine(local, th), n))
    /\ UNCHANGED worldVars

CloseView(th) ==
    /\ phase = "local"
    /\ local[th].pc = "done"
    /\ local' = Put(local, th, close_view(Mine(local, th)))
    /\ UNCHANGED worldVars

NextLocal ==
    \/ \E th \in Thread : Get(th)
    \/ \E th \in Thread : \E h \in 1..MaxHandles : OpenView(th, h)
    \/ \E th \in Thread : \E n \in DrawWidths : Generate(th, n)
    \/ \E th \in Thread : CloseView(th)

SpecLocal == InitLocal /\ [][NextLocal]_vars

-----------------------------------------------------------------------------
(* Seeds from the thread-local generator, which may be out of reach *)

\* try_from_local_entropy that takes the unfilled seed when the thread-local
\* source cannot be reached.
try_from_local_entropy_unfilled(l, reached, entropy) ==
    LET f == fill_bytes(SOURCE(l, entropy), SeedBytes("WyRand"))
    IN  IF reached
        THEN [ok |-> TRUE, val |-> RngSeed(f.val), local |-> [l EXCEPT !.cache = f.rng]]
        ELSE [ok |-> TRUE, val |-> RngSeed(ZeroSeed), local |-> l]

\* SeedSource::try_from_local_entropy: the ? returns AccessError when the
\* thread's SOURCE cannot be reached; otherwise the seed is filled from that
\* generator (created from OS entropy on first use), which moves on.
try_from_local_entropy(l, reached, entropy) ==
    LET f == fill_bytes(SOURCE(l, entropy), SeedBytes("WyRand"))
    IN  IF reached
        THEN [ok |-> TRUE, val |-> RngSeed(f.val), local |-> [l EXCEPT !.cache = f.rng]]
        ELSE [ok |-> FALSE, val |-> NoSeed, local |-> l]

\* RngEntityCommands::try_reseed_from_local_entropy: the ? returns before the
\* insert is queued.
try_reseed_from_local_entropy(w, e, r) ==
    IF r.ok THEN Submit(w, Cmd("insert_seed", e, r.val)) ELSE w

\* A system on thread th asks for a seed from the thread's own generator.
TryReseedFromLocalEntropy(e, th) ==
    /\ CanSubmit
    /\ \E reached \in BOOLEAN : \E s \in EntropySeeds :
        \E r \in {try_from_local_entropy(Mine(local, th), reached, s)} :
            /\ queue' = try_reseed_from_local_entropy(World, e, r).queue
            /\ local' = Put(local, th, r.local)
            /\ last' = Cmd("try_reseed_from_local_entropy", e, [ok |-> r.ok, bytes |-> r.val])
    /\ ops' = ops + 1
    /\ flushed' = 0
    /\ UNCHANGED <<seed, rng, source, links, isGlobal, life, orphaned, spawned,
                   linked_spawn, out, drawn, reseeded, phase, plugin, twin>>

NextSeed ==
    \/ Build
    \/ \E e \in Entity : TryReseedFromOsRng(e)
    \/ \E e \in Entity : \E th \in Thread : TryReseedFromLocalEntropy(e, th)
    \/ \E e \in Entity : ReseedFromOsRng(e)
    \/ Flush
    \/ Apply

SpecSeed == Init /\ [][NextSeed]_vars

-----------------------------------------------------------------------------
(* Serialisation of a ChaCha8Rng Entropy and of its RngSeed *)

\* The length of chacha20::SerializedRngState for the seeds of this model: the
\* seed, the stream and the word position.
StateBytes == 3

\* chacha20's serialize_state: seed, stream and word position in one array.
\* The position is kept in 32-bit words; only stream 0 is ever used.
serialize_state(r) == r.seed \o <<0, r.pos \div U32Bytes>>

\* chacha20's deserialize_state: the generator of that seed at that word.
deserialize_state(b) ==
    [seed |-> SubSeq(b, 1, Len(b) - 2), pos |-> b[Len(b)] * U32Bytes]

\* From<&ChaCha8Rng> for ChaChaAbstractState.
ChaChaAbstractState_from(r) == [state |-> serialize_state(r)]

\* A conversion that restores the seed and not the position.
ChaCha8Rng_from_restarted(value) == from_seed(deserialize_state(value.state).seed)

\* From<ChaChaAbstractState> for ChaCha8Rng.
ChaCha8Rng_from(value) == deserialize_state(value.state)

\* serialize_bytes: the state array goes out as one byte string.
serialize_bytes(value) == value

\* deserialize_bytes: a byte string of exactly the array's length, or an error.
deserialize_bytes(v) ==
    IF Len(v) = StateBytes THEN [ok |-> TRUE, val |-> v]
    ELSE [ok |-> FALSE, val |-> <<>>]

\* Serialize for ChaCha8Rng.
serialize(r) == serialize_bytes(ChaChaAbstractState_from(r).state)

\* Deserialize for ChaCha8Rng.
deserialize(v) ==
    LET b == deserialize_bytes(v)
    IN  IF b.ok THEN [ok |-> TRUE, val |-> ChaCha8Rng_from([state |-> b.val])]
        ELSE [ok |-> FALSE, val |-> NoRng]

\* The reflected RngSeed: a struct with the one field seed (rng is ignored).
serialize_seed(s) == <<"seed", s>>

\* from_reflect for RngSeed: the seed field, with a fresh PhantomData.
deserialize_seed(v) == RngSeed(v[2])

\* Entity 1 holds the original Entropy and RngSeed, entity 2 the values
\* recreated from the serialised forms; out[1] is the serialised Entropy,
\* out[2] the serialised RngSeed and out[3] the pairs of values drawn from the
\* original and from the recreated Entropy.
InitSerde ==
    /\ \E s \in RootSeeds \cup EntropySeeds :
        /\ seed = [EmptyWorld.seed EXCEPT ![1] = RngSeed(s)]
        /\ rng = [EmptyWorld.rng EXCEPT ![1] = from_seed(s)]
    /\ life = [EmptyWorld.life EXCEPT ![1] = "alive"]
    /\ linked_spawn = EmptyWorld.linked_spawn
    /\ local = NoLocal
    /\ source = EmptyWorld.source
    /\ links = EmptyWorld.links
    /\ isGlobal = EmptyWorld.isGlobal
    /\ orphaned = EmptyWorld.orphaned
    /\ spawned = EmptyWorld.spawned
    /\ queue = EmptyWorld.queue
    /\ out = EmptyWorld.out
    /\ drawn = EmptyWorld.drawn
    /\ reseeded = EmptyWorld.reseeded
    /\ phase = "serde"
    /\ ops = 0
    /\ flushed = 0
    /\ last = Cmd("none", NoEntity, NoSeed)
    /\ plugin = NoSeed
    /\ twin = [on |-> FALSE, w |-> EmptyWorld]

\* A draw from the original before it is serialised.
DrawOriginal(n) ==
    /\ phase = "serde" /\ ops < MaxOps
    /\ out[1] = <<>>
    /\ Commit(TakeFrom(World, 1, fill_bytes(rng[1], n)))
    /\ ops' = ops + 1
    /\ last' = Cmd("draw", 1, Bytes(rng[1], n))
    /\ UNCHANGED <<phase, flushed, plugin, twin>>

Serialize ==
    /\ phase = "serde"
    /\ out[1] = <<>>
    /\ Commit([World EXCEPT !.out[1] = serialize(rng[1])])
    /\ last' = Cmd("serialize", 1, serialize(rng[1]))
    /\ UNCHANGED <<phase, ops, flushed, plugin, twin>>

\* The serialised form, whole or cut short, is deserialised.
Deserialize(v) ==
    /\ phase = "serde"
    /\ out[1] # <<>> /\ ~HasRng(World, 2)
    /\ LET r == deserialize(v)
       IN  /\ Commit(IF r.ok THEN [World EXCEPT !.rng[2] = r.val] ELSE World)
           /\ last' = Cmd("deserialize", 2, r.ok)
    /\ UNCHANGED <<phase, ops, flushed, plugin, twin>>

\* The same draw from the original and from the recreated Entropy.
DrawPair(n) ==
    /\ phase = "serde" /\ ops < MaxOps
    /\ HasRng(World, 2)
    /\ LET a == fill_bytes(rng[1], n)
           b == fill_bytes(rng[2], n)
       IN  Commit([TakeFrom(TakeFrom(World, 1, a), 2, b)
                      EXCEPT !.out[3] = Append(@, <<a.val, b.val>>)])
    /\ ops' = ops + 1
    /\ last' = Cmd("draw_pair", 2, n)
    /\ UNCHANGED <<phase, flushed, plugin, twin>>

SerializeSeed ==
    /\ phase = "serde"
    /\ out[2] = <<>>
    /\ Commit([World EXCEPT !.out[2] = serialize_seed(seed[1])])
    /\ last' = Cmd("serialize_seed", 1, serialize_seed(seed[1]))
    /\ UNCHANGED <<phase, ops, flushed, plugin, twin>>

DeserializeSeed ==
    /\ phase = "serde"
    /\ out[2] # <<>> /\ ~HasSeed(World, 2)
    /\ Commit([World EXCEPT !.seed[2] = deserialize_seed(out[2])])
    /\ last' = Cmd("deserialize_seed", 2, deserialize_seed(out[2]))
    /\ UNCHANGED <<phase, ops, flushed, plugin, twin>>

NextSerde ==
    \/ \E n \in DrawWidths : DrawOriginal(n)
    \/ Serialize
    \/ Deserialize(out[1])
    \/ Deserialize(Tail(out[1]))
    \/ \E n \in DrawWidths : DrawPair(n)
    \/ SerializeSeed
    \/ DeserializeSeed

SpecSerde == InitSerde /\ [][NextSerde]_vars

-----------------------------------------------------------------------------
(* The cascade on its own: which commands a flush applies, seed values aside *)

\* The observers and hooks branch on which components an entity holds and on
\* the relationship edges, never on a seed's bytes. Every seed stands for any.
AnySeed == <<0>>

ShapeCmd(c) ==
    CASE c.op = "insert_seed" -> [c EXCEPT !.arg = AnySeed]
      [] c.op = "insert_entropy" -> [c EXCEPT !.arg = from_seed(AnySeed)]
      [] c.op = "insert_batch" ->
            [c EXCEPT !.arg = [i \in 1..Len(c.arg) |-> <<c.arg[i][1], AnySeed>>]]
      [] OTHER -> c

Shape(w) ==
    [w EXCEPT !.seed = [e \in Entity |-> IF HasSeed(w, e) THEN AnySeed ELSE NoSeed],
              !.rng = [e \in Entity |-> IF HasRng(w, e) THEN from_seed(AnySeed) ELSE NoRng],
              !.queue = [i \in 1..Len(w.queue) |-> ShapeCmd(w.queue[i])],
              !.out = [e \in Entity |-> <<>>],
              !.drawn = [e \in Entity |-> 0]]

\* Three entities spawned with a seed each, entity 1 the Global one.
InitCascade ==
    /\ seed = [e \in Entity |-> AnySeed]
    /\ rng = [e \in Entity |-> from_seed(AnySeed)]
    /\ life = [e \in Entity |-> "alive"]
    /\ isGlobal = {1}
    /\ linked_spawn = EmptyWorld.linked_spawn
    /\ local = NoLocal
    /\ source = EmptyWorld.source
    /\ links = EmptyWorld.links
    /\ orphaned = EmptyWorld.orphaned
    /\ spawned = EmptyWorld.spawned
    /\ queue = EmptyWorld.queue
    /\ out = EmptyWorld.out
    /\ drawn = EmptyWorld.drawn
    /\ reseeded = EmptyWorld.reseeded
    /\ phase = "step"
    /\ ops = 0
    /\ flushed = 0
    /\ last = Cmd("none", NoEntity, NoSeed)
    /\ plugin = <<2>>
    /\ twin = [on |-> FALSE, w |-> EmptyWorld]

\* The most commands left pending in a flush that is followed further.
MaxPending == 4

\* The flush applies the command at the head of the queue, however many
\* commands it has applied before.
ApplyNext ==
    /\ phase = "flush"
    /\ queue # <<>> /\ Len(queue) <= MaxPending
    /\ \E w \in {ApplyCmd(World)} : \E s \in {Shape(w)} : Commit(s)
    /\ phase' = IF queue' = <<>> THEN "step" ELSE "flush"
    /\ last' = Head(queue)
    /\ UNCHANGED <<ops, flushed, plugin, twin>>

NextCascade ==
    \/ \E e \in Entity : Reseed(e, AnySeed)
    \/ \E e \in Entity : \E ts \in TargetLists(e) : Link(e, ts)
    \/ \E e \in Entity : ReseedLinked(e)
    \/ Flush
    \/ ApplyNext

\* The host's flush loop runs until the queue is empty: a command at the head
\* of the queue is applied.
SpecCascade == InitCascade /\ [][NextCascade]_vars /\ WF_vars(ApplyNext)

-----------------------------------------------------------------------------
(* SeedLinked repeated on a source: what each signal assigned is kept *)

\* out[e] is the record of what happened to source e, in order: for each
\* SeedLinked applied while e held an Entropy and targets, the targets and the
\* seeds of the batch it queued; for each insertion or removal of e's Entropy,
\* that operation; for each link_target_rngs applied on e, the targets e had
\* before and the targets listed.
Event(w, c, after) ==
    IF c.op = "SeedLinked" /\ HasRng(w, c.e) /\ HasLinks(w, c.e)
    THEN <<[op |-> "SeedLinked", ts |-> w.links[c.e],
            seeds |-> [i \in 1..Len(Head(after.queue).arg) |-> Head(after.queue).arg[i][2]]]>>
    ELSE IF c.op \in {"insert_entropy", "remove_entropy"} /\ Alive(w, c.e)
    THEN <<[op |-> c.op, ts |-> <<>>, seeds |-> <<>>]>>
    ELSE IF c.op = "add_related" /\ Alive(w, c.e)
    THEN <<[op |-> "add_related", ts |-> w.links[c.e], listed |-> c.arg]>>
    ELSE <<>>

\* One command of the queue is applied and what it did to its entity is kept.
ApplyKept ==
    /\ phase = "flush"
    /\ queue # <<>>
    /\ ~TooDeep(World)
    /\ \E w \in {ApplyCmd(World)} :
        Commit([w EXCEPT !.out[Head(queue).e] = @ \o Event(World, Head(queue), w)])
    /\ phase' = IF queue' = <<>> THEN "step" ELSE "flush"
    /\ last' = Head(queue)
    /\ UNCHANGED <<ops, flushed, plugin, twin>>

NextRepeat ==
    \/ Build
    \/ \E e \in Entity : Reseed(e, <<2>>)
    \/ \E e \in Entity : RemoveSeed(e)
    \/ \E e \in Entity : \E ts \in TargetLists(e) : Link(e, ts)
    \/ \E e \in Entity : ReseedLinked(e)
    \/ \E e \in Entity : ReseedFromSource(e)
    \/ Flush
    \/ ApplyKept

SpecRepeat == Init /\ [][NextRepeat]_vars

-----------------------------------------------------------------------------
(* Forking from the Global source through &mut World; several Global markers *)

\* A query for Entropy<S> that leaves out the With<Global> filter.
query_filtered_unmarked(w, S) ==
    IF S = "WyRand" THEN {e \in Entity : HasRng(w, e)} ELSE {}

\* query_filtered::<&mut Entropy<S>, With<Global>>(): the entities found. The
\* Entropy components of the model are of kind WyRand.
query_filtered(w, S) == IF S = "WyRand" THEN GlobalSources(w) ELSE {}

\* ForkRngExt and ForkSeedExt for &mut World: single_mut on the query for the
\* source kind (the Target kind itself for fork_rng, fork_inner, fork_seed
\* and fork_inner_seed), mapped through the fork of the component.
World_fork(w, op, S, T) ==
    LET found == query_filtered(w, IF op \in {"fork_as", "fork_as_seed"} THEN S ELSE T)
    IN  IF Cardinality(found) = 1
        THEN LET g == CHOOSE g \in found : TRUE
                 f == CASE op \in {"fork_rng", "fork_as"} -> fork_as(w.rng[g], T)
                        [] op = "fork_inner" -> fork_inner(w.rng[g])
                        [] op \in {"fork_seed", "fork_as_seed"} -> fork_as_seed(w.rng[g], T)
                        [] op = "fork_inner_seed" -> fork_inner_seed(w.rng[g])
             IN  [w |-> TakeFrom(w, g, f), ok |-> TRUE, val |-> f.val]
        ELSE [w |-> w, ok |-> FALSE,
              val |-> IF found = {} THEN "NoEntities" ELSE "MultipleEntities"]

WorldForkOps ==
    {"fork_rng", "fork_as", "fork_inner", "fork_seed", "fork_as_seed", "fork_inner_seed"}

\* An exclusive system calls a fork operation on the world; what it returned
\* is kept in last.
WorldFork(op, S, T) ==
    /\ phase \in {"init", "step"} /\ ops < MaxOps
    /\ \E r \in {World_fork(World, op, S, T)} :
        /\ Commit(r.w)
        /\ last' = Cmd(op, NoEntity, [S |-> S, T |-> T, ok |-> r.ok, val |-> r.val])
    /\ ops' = ops + 1
    /\ UNCHANGED <<phase, flushed, plugin, twin>>

\* The application gives an entity the Global marker.
MarkGlobal(e) ==
    /\ phase = "step" /\ ops < MaxOps
    /\ Alive(World, e) /\ e \notin isGlobal
    /\ Step(LAMBDA w : [w EXCEPT !.isGlobal = @ \cup {e}])
    /\ Submitted(Cmd("mark_global", e, NoSeed))

NextWorld ==
    \/ Build
    \/ \E e \in Entity : Reseed(e, <<3>>)
    \/ \E e \in Entity : RemoveSeed(e)
    \/ \E e \in Entity : MarkGlobal(e)
    \/ \E e \in Entity : ReseedFromGlobal(e)
    \/ \E op \in WorldForkOps : \E S, T \in Kinds : WorldFork(op, S, T)
    \/ Flush
    \/ Apply

SpecWorld == Init /\ [][NextWorld]_vars





-----------------------------------------------------------------------------
(* Properties *)

\* A flush point: the systems run and no command is waiting in the queue.
FlushPoint == phase = "step" /\ queue = <<>>

\* The commands a flush applies.
CommandOps ==
    {"insert_seed", "remove_seed", "insert_entropy", "remove_entropy", "insert_batch",
     "SeedLinked", "SeedFromSource", "SeedFromGlobal", "add_related"}

\* The flush point a flush has just reached: a command was applied last.
FlushEnded == FlushPoint /\ last.op \in CommandOps

\* C1: at every flush point, every entity that holds an RngSeed holds an
\* Entropy, and that Entropy is the generator built from the entity's current
\* seed, advanced by exactly the bytes drawn or forked from it since that seed
\* was inserted.
SeedHasItsEntropy ==
    FlushPoint =>
        \A e \in Entity :
            HasSeed(World, e) =>
                /\ HasRng(World, e)
                /\ rng[e] = Advance(from_seed(seed[e]), drawn[e])

\* A flush point where an entity seeded by a fork has been drawn from.
SeedHasItsEntropyWitness ==
    /\ FlushPoint
    /\ \E e \in Entity \ {1} :
        /\ HasSeed(World, e) /\ Depth(seed[e]) > 1
        /\ drawn[e] > 0
        /\ rng[e] = Advance(from_seed(seed[e]), drawn[e])

\* C2 (as stated): after a flush that applied one queued command, every
\* entity whose RngSeed it replaced holds the Entropy from_seed(seed), at
\* position zero.
ReseedEndsAtPositionZero ==
    (FlushEnded /\ flushed = 1) =>
        \A e \in reseeded : HasSeed(World, e) => rng[e] = from_seed(seed[e])

\* C2 (amended): replacing the RngSeed of an entity, even by the same seed and
\* after draws, recreates its Entropy as from_seed(seed), at position zero, when
\* the queued insertion is applied; after a flush that applied one queued
\* command the Entropy is from_seed(seed) if the entity has no targets, and
\* from_seed(seed) advanced by one seed per target if it has targets (the
\* SeedLinked cascade forks from it in the same flush).
ReseedRecreatesEntropy ==
    /\ last.op = "insert_entropy" => rng[last.e] = from_seed(seed[last.e])
    /\ (FlushEnded /\ flushed = 1) =>
        \A e \in reseeded :
            HasSeed(World, e) =>
                rng[e] = Advance(from_seed(seed[e]), Len(links[e]) * SeedBytes("WyRand"))

\* The flush has replaced the seed of an entity by the seed it was drawn from
\* before, and its Entropy is back at position zero.
ReseedRecreatesEntropyWitness ==
    /\ FlushEnded /\ flushed = 1
    /\ \E e \in reseeded :
        /\ out[e] # <<>>
        /\ out[e][1] = Bytes(from_seed(seed[e]), U64Bytes)
        /\ rng[e] = from_seed(seed[e])

\* C3: removing the RngSeed of an entity removes its Entropy: once the removal
\* is applied the entity holds neither, and at a flush point no entity holds
\* an Entropy without an RngSeed.
RemoveSeedRemovesEntropy ==
    /\ last.op = "remove_entropy" =>
        ~HasSeed(World, last.e) /\ ~HasRng(World, last.e)
    /\ FlushPoint =>
        \A e \in Entity : ~HasSeed(World, e) => ~HasRng(World, e)

\* The flush that removed the seed of an entity drawn from has ended.
RemoveSeedRemovesEntropyWitness ==
    /\ FlushEnded
    /\ last.op = "remove_entropy"
    /\ out[last.e] # <<>>
    /\ ~HasSeed(World, last.e) /\ ~HasRng(World, last.e)

\* C4: two runs built with the same configured seed that perform the same
\* operations in the same order hold the same seeds, the same generators and
\* the same outputs.
SameSeedSameRun ==
    (twin.on /\ plugin # NoSeed) => twin.w = World

\* Both runs have derived a seed by a fork and drawn from it.
SameSeedSameRunWitness ==
    /\ twin.on /\ plugin # NoSeed /\ FlushPoint
    /\ \E e \in Entity \ {1} :
        /\ Depth(seed[e]) > 1
        /\ out[e] # <<>>
        /\ twin.w.seed[e] = seed[e] /\ twin.w.out[e] = out[e]

\* C5: when concurrently scheduled systems draw from different entities, the
\* sequence of outputs of every entity is the same whichever system goes
\* first.
InterleavingKeepsOutputs ==
    (twin.on /\ plugin # NoSeed) =>
        \A e \in Entity : twin.w.out[e] = out[e]

\* Two systems have drawn from two entities, in opposite orders in the two runs.
InterleavingKeepsOutputsWitness ==
    /\ twin.on /\ plugin # NoSeed
    /\ last.op = "draw_both"
    /\ out[last.e] # <<>> /\ out[last.arg] # <<>>
    /\ twin.w.out[last.e] = out[last.e] /\ twin.w.out[last.arg] = out[last.arg]

\* The fork operations of the protocol.
ForkOps ==
    {"fork_seed", "fork_as_seed", "fork_inner_seed", "fork_rng", "fork_as", "fork_inner"}

\* The generator the i-th recorded operation left behind.
After(i) == IF i < Len(out[1]) THEN out[1][i + 1].pre ELSE rng[1]

\* C6: fork_seed advances the source by the seed width of the source's kind,
\* fork_as_seed::<T> by the seed width of T, and no fork operation leaves the
\* source where it was.
ForkAdvancesSource ==
    phase = "fork" =>
        \A i \in 1..Len(out[1]) :
            LET x == out[1][i]
            IN  /\ x.op = "fork_seed" => After(i) = Advance(x.pre, SeedBytes("WyRand"))
                /\ x.op = "fork_as_seed" => After(i) = Advance(x.pre, SeedBytes(x.T))
                /\ x.op \in ForkOps => After(i).pos > x.pre.pos

\* A seed of the other kind was forked from a source already advanced.
ForkAdvancesSourceWitness ==
    /\ phase = "fork"
    /\ \E i \in 1..Len(out[1]) :
        /\ out[1][i].op = "fork_as_seed" /\ out[1][i].T = "ChaCha8Rng"
        /\ out[1][i].pre.pos > 0
        /\ After(i).pos = out[1][i].pre.pos + ChaCha8SeedBytes

SuccessiveForksDiffer ==
    phase = "fork" =>
        \A i \in 1..Len(out[1]) :
            (/\ i < Len(out[1])
             /\ {out[1][i].op, out[1][i + 1].op} \subseteq {"fork_seed", "fork_inner_seed"})
                => out[1][i].val # out[1][i + 1].val

\* fork_seed, then fork_inner_seed, returned two seeds.
SuccessiveForksDifferWitness ==
    /\ phase = "fork"
    /\ \E i \in 1..Len(out[1]) :
        /\ i < Len(out[1])
        /\ out[1][i].op = "fork_seed" /\ out[1][i + 1].op = "fork_inner_seed"
        /\ out[1][i].val # out[1][i + 1].val

\* The flush is about to apply SeedLinked to a source with Entropy and targets.
SeedLinkedStep ==
    /\ phase = "flush" /\ queue # <<>> /\ queue' # queue
    /\ Head(queue).op = "SeedLinked"
    /\ HasRng(World, Head(queue).e) /\ HasLinks(World, Head(queue).e)

\* The flush is about to apply a batch of seed insertions.
InsertBatchStep ==
    /\ phase = "flush" /\ queue # <<>> /\ queue' # queue
    /\ Head(queue).op = "insert_batch"

\* C9: processing SeedLinked on a source with N targets forks N pairwise
\* distinct seeds, one for each target and for no other entity, advances the
\* source by N seed widths, and the batch it queues changes the RngSeed of
\* exactly those N targets.
SeedLinkedSeedsEachTarget ==
    [][/\ SeedLinkedStep =>
            LET e == Head(queue).e
                n == Len(links[e])
                b == Head(queue').arg
            IN  /\ Head(queue').op = "insert_batch"
                /\ Len(b) = n
                /\ {b[i][1] : i \in 1..n} = {links[e][i] : i \in 1..n}
                /\ \A i, j \in 1..n : i # j => (b[i][1] # b[j][1] /\ b[i][2] # b[j][2])
                /\ rng'[e] = Advance(rng[e], n * SeedBytes("WyRand"))
                /\ seed' = seed
       /\ InsertBatchStep =>
            LET b == Head(queue).arg
            IN  \A x \in Entity :
                    /\ (\A i \in 1..Len(b) : b[i][1] # x) => seed'[x] = seed[x]
                    /\ \A i \in 1..Len(b) :
                        b[i][1] = x => seed'[x] = b[i][2]
      ]_vars

\* The batch of a source with two targets has been applied: both hold the
\* seeds forked for them, the third entity's seed is the source's own.
SeedLinkedSeedsEachTargetWitness ==
    /\ last.op = "insert_batch" /\ Len(last.arg) = 2
    /\ Len(links[last.e]) = 2
    /\ \A i \in 1..2 : seed[last.arg[i][1]] = last.arg[i][2]
    /\ seed[last.arg[1][1]] # seed[last.arg[2][1]]
    /\ rng[last.e].pos >= 2 * WyRandSeedBytes

\* C10: SeedLinked assigns seeds in the order of the source's RngLinks: the
\* i-th target receives the i-th seed forked from the source while the signal
\* is processed, and the N insertions are queued as one batch command that
\* writes all N seeds when it is applied.
SeedLinkedInLinkOrder ==
    [][/\ SeedLinkedStep =>
            LET e == Head(queue).e
                n == Len(links[e])
                b == Head(queue').arg
            IN  /\ Len(queue') = Len(queue)
                /\ Tail(queue') = Tail(queue)
                /\ Head(queue') = Cmd("insert_batch", e, b)
                /\ Len(b) = n
                /\ \A i \in 1..n :
                    b[i] = <<links[e][i],
                             fork_seed(Advance(rng[e], (i - 1) * SeedBytes("WyRand"))).val>>
       /\ InsertBatchStep =>
            LET b == Head(queue).arg
            IN  /\ \A i \in 1..Len(b) : seed'[b[i][1]] = b[i][2]
                /\ Len(queue') = Len(queue) - 1 + Len(b)
                /\ \A i \in 1..Len(b) :
                    queue'[i] = Cmd("insert_entropy", b[i][1], from_seed(b[i][2]))
      ]_vars

\* The batch of a source linked to 3 and then 2 has been applied: 3 holds the
\* first seed forked and 2 the second.
SeedLinkedInLinkOrderWitness ==
    /\ last.op = "insert_batch"
    /\ links[last.e] = <<3, 2>>
    /\ \E r \in {from_seed(s) : s \in RootSeeds \cup EntropySeeds} :
        /\ seed[3] = fork_seed(r).val
        /\ seed[2] = fork_seed(fork_seed(r).rng).val

\* The step that applies the insertion of an Entropy component.
InsertEntropyStep == phase = "flush" /\ queue # <<>> /\ Head(queue).op = "insert_entropy"

\* The seeds SeedLinked gives the targets of e from the Entropy made of e's seed.
SeedsForLinks(e) == ForkEach(from_seed(seed[e]), links[e]).batch

\* C11: when the Entropy of an entity with at least one target is inserted
\* (created or replaced), SeedLinked for that entity is queued right behind the
\* insertion, and an insertion on an entity without targets queues nothing;
\* so after a flush of one command every target of a reseeded source holds the
\* seed forked for it from the new Entropy.
AutoCascadeOnInsert ==
    /\ [][InsertEntropyStep /\ Alive(World, Head(queue).e) =>
            LET e == Head(queue).e
            IN  /\ rng'[e] = Head(queue).arg
                /\ queue' = IF HasLinks(World, e)
                            THEN <<Cmd("SeedLinked", e, NoSeed)>> \o Tail(queue)
                            ELSE Tail(queue)]_vars
    /\ [](FlushEnded /\ flushed = 1 =>
            \A e \in reseeded : HasSeed(World, e) /\ HasLinks(World, e) =>
                \A i \in 1..Len(links[e]) : seed[links[e][i]] = SeedsForLinks(e)[i][2])

AutoCascadeOnInsertWitness ==
    /\ FlushEnded /\ flushed = 1
    /\ \E e \in reseeded :
        /\ HasSeed(World, e) /\ Len(links[e]) = 2
        /\ \A i \in 1..Len(links[e]) : seed[links[e][i]] = SeedsForLinks(e)[i][2]
    /\ \E e \in reseeded : HasSeed(World, e) /\ ~HasLinks(World, e)

\* The step that applies the command c.op at the head of the queue.
Applying(op) == phase = "flush" /\ queue # <<>> /\ Head(queue).op = op

\* A command is taken off the queue and nothing else happens.
Dropped ==
    /\ queue' = Tail(queue)
    /\ UNCHANGED <<seed, rng, source, links, isGlobal, life, out, drawn>>

\* C12: SeedFromGlobal for a target that was despawned, or applied when no
\* entity is the global source, is dropped: no component is written, no
\* command is queued and no Entropy, the global one included, is advanced.
SeedFromGlobalDropped ==
    [][Applying("SeedFromGlobal")
        /\ (~Alive(World, Head(queue).e) \/ GlobalSources(World) = {}) => Dropped]_vars

SeedFromGlobalDroppedWitness ==
    /\ last.op = "SeedFromGlobal"
    /\ life[last.e] = "dead"
    /\ GlobalSources(World) # {}
    /\ phase = "step"

\* C13: SeedFromSource for a target without RngSource is dropped (no seed, no
\* Entropy, no stream position changes); for a target whose RngSource names a
\* source holding an Entropy, one seed is forked from that source and from no
\* other entity, and its insertion, applied next, makes it the target's seed.
\* A target whose RngSource names an entity without Entropy is left alone too.
SeedFromSourcePullsOwnSource ==
    [][/\ Applying("SeedFromSource") =>
            LET t == Head(queue).e
                p == source[t]
            IN  IF p # NoEntity /\ HasRng(World, p)
                THEN /\ queue' = <<Cmd("insert_seed", t, RngSeed(Bytes(rng[p], SeedBytes("WyRand"))))>>
                                    \o Tail(queue)
                     /\ rng'[p] = Advance(rng[p], SeedBytes("WyRand"))
                     /\ \A x \in Entity \ {p} : rng'[x] = rng[x]
                     /\ seed' = seed
                ELSE Dropped
       /\ Applying("insert_seed") /\ Alive(World, Head(queue).e) =>
            /\ seed'[Head(queue).e] = Head(queue).arg
            /\ \A x \in Entity \ {Head(queue).e} : seed'[x] = seed[x]
      ]_vars

\* A target pulled a seed from its source while another entity, the global
\* source, holds an Entropy as well; and the flush is over.
SeedFromSourcePullsOwnSourceWitness ==
    /\ FlushEnded /\ flushed = 1
    /\ last.op = "insert_entropy"
    /\ \E t \in Entity :
        /\ t = last.e /\ HasSeed(World, t)
        /\ source[t] # NoEntity /\ source[t] \notin isGlobal
        /\ HasRng(World, source[t])
        /\ seed[t] = RngSeed(Bytes(from_seed(seed[source[t]]), SeedBytes("WyRand")))
        /\ rng[source[t]] = Advance(from_seed(seed[source[t]]), SeedBytes("WyRand"))

\* The commands only hooks and observers queue.
InternalOps == {"insert_entropy", "remove_entropy", "insert_batch"}

\* s is the end of q.
IsSuffix(s, q) ==
    Len(s) <= Len(q) /\ SubSeq(q, Len(q) - Len(s) + 1, Len(q)) = s

\* C14: the commands a system submits are applied in the order submitted (a
\* submission goes behind the commands waiting, the flush applies the command
\* at the head, and what a hook or observer queues goes before the commands
\* still waiting), reads happen only between flushes, and between flushes no
\* command of a hook or observer is pending and every RngSeed has the Entropy
\* of its current seed.
SubmissionOrderAndFullFlush ==
    /\ [][/\ (phase = "step" /\ phase' = "step" /\ queue' # queue) =>
                (Len(queue') > Len(queue) /\ SubSeq(queue', 1, Len(queue)) = queue)
          /\ (phase = "flush" /\ queue' # queue) =>
                (last' = Head(queue) /\ IsSuffix(Tail(queue), queue'))
          /\ (out' # out) => (phase = "step" /\ phase' = "step")
         ]_vars
    /\ [](phase = "step" =>
            /\ \A i \in 1..Len(queue) : queue[i].op \notin InternalOps
            /\ \A e \in Entity :
                HasSeed(World, e) => (HasRng(World, e) /\ rng[e].seed = seed[e]))

\* The flush of SeedFromGlobal and then reseed for entity 2 is over: the seed
\* of the later command is the one entity 2 holds, with its Entropy.
SubmissionOrderAndFullFlushWitness ==
    /\ FlushEnded /\ flushed = 2
    /\ last = Cmd("insert_entropy", 2, from_seed(<<2>>))
    /\ 2 \in reseeded /\ rng[2] = from_seed(<<2>>)
    /\ 2 \notin isGlobal /\ \E g \in isGlobal : HasRng(World, g) /\ rng[g].pos = WyRandSeedBytes
    /\ seed[3] = NoSeed /\ source[2] = NoEntity

\* How many times t is in the sequence s.
Occurrences(s, t) == Cardinality({i \in 1..Len(s) : s[i] = t})

\* C16: applying link_target_rngs(source, targets) is one step of the flush
\* after which every listed target has the source as its RngSource and is in
\* the source's RngLinks exactly once and in no other RngLinks, and no entity
\* not listed changed its RngSource; so at the end of the flush, where systems
\* read again, all listed targets are linked.
LinkIsAtomic ==
    /\ [][Applying("add_related") /\ Alive(World, Head(queue).e) =>
            LET e == Head(queue).e
                ts == Head(queue).arg
                listed == {ts[i] : i \in 1..Len(ts)}
            IN  /\ \A t \in listed :
                    /\ source'[t] = e
                    /\ Occurrences(links'[e], t) = 1
                    /\ \A x \in Entity \ {e} : Occurrences(links'[x], t) = 0
                /\ \A x \in Entity \ listed : source'[x] = source[x]
                /\ Len(links'[e]) = Cardinality({x \in Entity : source'[x] = e})
         ]_vars
    /\ [](FlushEnded /\ last.op = "add_related" /\ Alive(World, last.e) =>
            \A i \in 1..Len(last.arg) : source[last.arg[i]] = last.e)

\* Two targets were linked by one command; one of them holds a seed of its own.
LinkIsAtomicWitness ==
    /\ FlushEnded /\ last.op = "add_related" /\ Len(last.arg) = 2
    /\ links[last.e] = last.arg
    /\ \A i \in 1..2 : source[last.arg[i]] = last.e
    /\ \E x \in Entity \ {last.e} : HasSeed(World, x) /\ links[x] = <<>> /\ source[x] = last.e

\* The flush that just ended applied the commands of one with_target_rngs
\* call and no other.
SpawnFlushEnded ==
    FlushEnded /\ spawned # {} /\ flushed <= Cardinality(spawned) + 1

\* C15: when a flush of the commands of with_target_rngs on a source (an
\* entity that holds an Entropy) has ended, every entity spawned by it has
\* the source as its RngSource, is in the source's RngLinks, holds an RngSeed
\* of the target width taken from the source's stream, different from the
\* seeds of the other targets, and holds the Entropy built from that seed.
\* Whatever else the flush applied, no entity spawned in it is left linked to
\* a source without holding an RngSeed and the Entropy of that seed.
SpawnedTargetsAreSeeded ==
    /\ FlushEnded =>
        \A p \in spawned :
            Alive(World, p[1]) /\ source[p[1]] = p[2] /\ HasRng(World, p[2]) =>
                HasSeed(World, p[1]) /\ HasRng(World, p[1]) /\ rng[p[1]].seed = seed[p[1]]
    /\ SpawnFlushEnded =>
        \A p \in spawned :
            LET t == p[1]
                e == p[2]
            IN  Alive(World, e) /\ HasRng(World, e) =>
                    /\ source[t] = e
                    /\ Occurrences(links[e], t) = 1
                    /\ HasSeed(World, t)
                    /\ seed[t][1] = rng[e].seed
                    /\ seed[t][2] < rng[e].pos
                    /\ seed[t][3] = SeedBytes("WyRand")
                    /\ \A q \in spawned : q # p => seed[q[1]] # seed[t]
                    /\ rng[t] = from_seed(seed[t])

\* An entity was spawned, linked as the second target of a source, and seeded.
SpawnedTargetsAreSeededWitness ==
    /\ SpawnFlushEnded
    /\ \E p \in spawned :
        /\ HasRng(World, p[2]) /\ source[p[1]] = p[2]
        /\ Len(links[p[2]]) = 2 /\ links[p[2]][2] = p[1]
        /\ HasSeed(World, p[1])
        /\ rng[p[1]] = from_seed(seed[p[1]])

\* C17: between flushes, after any linking, re-linking, unlinking, spawning
\* with links and despawning: t is in the RngLinks of s exactly when the
\* RngSource of t names s, and then exactly once, so that no entity is in the
\* RngLinks of two sources; and neither RngSource nor RngLinks names or
\* belongs to an entity that does not exist.
LinksMirrorSources ==
    phase = "step" =>
        /\ \A s, t \in Entity :
            /\ Occurrences(links[s], t) = (IF source[t] = s THEN 1 ELSE 0)
        /\ \A t \in Entity :
            /\ source[t] # NoEntity => (Alive(World, t) /\ Alive(World, source[t]))
            /\ ~Alive(World, t) => (source[t] = NoEntity /\ links[t] = <<>>)
            /\ \A i \in 1..Len(links[t]) : Alive(World, links[t][i])

\* A target was linked to a second source, its first source was despawned
\* and took the link of its other target with it.
LinksMirrorSourcesWitness ==
    /\ FlushPoint
    /\ orphaned # {}
    /\ \E d \in Entity : life[d] = "dead"
    /\ \E s \in Entity : Alive(World, s) /\ links[s] # <<>> /\ s \in orphaned

AtMostOneLiveView ==
    /\ [](\A th \in Thread :
            /\ Len(local[th].view) <= 1
            /\ (local[th].pc = "idle") = (local[th].view = <<>>))
    /\ [][\A th \in Thread :
            /\ Len(local'[th].view) > Len(local[th].view) => local[th].view = <<>>
            /\ (local[th].cache # NoRng /\ local'[th].cache # local[th].cache) =>
                    local[th].view # <<>>
         ]_vars

\* A thread with two handles has drawn through one and is drawing through
\* the other, while the other thread is in a draw of its own.
AtMostOneLiveViewWitness ==
    /\ local[1].handles = 2 /\ local[1].draws = 1
    /\ local[1].view = <<2>> /\ local[1].pc = "open"
    /\ local[1].cache.pos > 0
    /\ local[2].view # <<>>

\* C21: a thread's generator is built once, from an OS entropy draw, at the
\* thread's first access; afterwards it is never replaced or re-seeded, only
\* advanced; and a draw through any handle of the thread returns the bytes at
\* the position where the previous draw of the thread, through whichever
\* handle, left the generator.
OneGeneratorPerThread ==
    [][\A th \in Thread :
        LET l == local[th]
            m == local'[th]
        IN  /\ (l.cache = NoRng /\ m.cache # NoRng) =>
                    (l.handles = 0 /\ m.handles = 1
                        /\ \E s \in EntropySeeds : m.cache = from_seed(s))
            /\ (l.cache # NoRng /\ m.cache # l.cache) =>
                    (m.cache.seed = l.cache.seed /\ m.cache.pos > l.cache.pos)
            /\ l.handles > 0 => l.cache # NoRng
            /\ m.draws > l.draws =>
                    \E n \in DrawWidths :
                        /\ m.val = Bytes(l.cache, n)
                        /\ m.cache = Advance(l.cache, n)
      ]_vars

\* A thread took a second handle after drawing through the first, and its
\* second draw, through the second handle, continued the first draw's stream.
OneGeneratorPerThreadWitness ==
    \E th \in Thread :
        /\ local[th].handles = 2 /\ local[th].prev = 1
        /\ local[th].view = <<2>> /\ local[th].pc = "done"
        /\ local[th].val[2] > 0
        /\ local[th].val[1] = local[th].cache.seed

\* C22: whichever way the steps of two threads interleave, a step changes
\* what one thread holds at most; a thread's generator comes into being and
\* changes only in steps of that thread (the thread takes a handle or moves
\* on in a draw), built from an entropy value drawn in that step; and a draw
\* returns bytes of the drawing thread's own generator.
ThreadsShareNoGenerator ==
    [][/\ \A th, other \in Thread :
            th # other => (local'[th] = local[th] \/ local'[other] = local[other])
       /\ \A th \in Thread :
            LET l == local[th]
                m == local'[th]
            IN  /\ m.cache # l.cache => (m.handles # l.handles \/ m.pc # l.pc)
                /\ m.draws > l.draws =>
                        (m.val[1] = l.cache.seed /\ m.val[2] = l.cache.pos)
      ]_vars

\* Both threads took one handle and made the same draw; their generators
\* were built from different entropy, the bytes differ, and one thread has
\* returned from its draw while the other has not.
ThreadsShareNoGeneratorWitness ==
    /\ \A th \in Thread : local[th].handles = 1 /\ local[th].draws = 1
    /\ local[1].cache.seed # local[2].cache.seed
    /\ local[1].cache.pos = local[2].cache.pos
    /\ local[1].val # local[2].val /\ local[1].val[3] = local[2].val[3]
    /\ local[1].pc = "done" /\ local[2].pc = "idle"

\* The operations that ask the OS for a seed.
OsOps == {"try_reseed_from_os_rng", "reseed_from_os_rng"}

\* C23: when the OS entropy draw fails, try_reseed_from_os_rng queues nothing
\* and the app goes on, reseed_from_os_rng queues nothing and the app ends
\* there (the panic); when the draw succeeds the seed queued is the bytes the
\* OS gave. No seed is ever queued that the OS did not give, and the app ends
\* for no other reason.
OsFailureIsNotCovered ==
    [][/\ (last' # last /\ last'.op \in OsOps) =>
            IF last'.arg.ok
            THEN /\ queue' = Append(queue, Cmd("insert_seed", last'.e, RngSeed(last'.arg.bytes)))
                 /\ last'.arg.bytes \in EntropySeeds
                 /\ phase' = phase
            ELSE /\ queue' = queue
                 /\ seed' = seed /\ rng' = rng
                 /\ phase' = IF last'.op = "reseed_from_os_rng" THEN "panicked" ELSE phase
       /\ (phase' = "panicked" /\ phase # "panicked") =>
            (last'.op = "reseed_from_os_rng" /\ ~last'.arg.ok)
       /\ phase = "panicked" => UNCHANGED vars
      ]_vars

\* The third request of a step, reseed_from_os_rng, met a failing OS source:
\* the app has ended, with the one seed insertion that was queued before.
OsFailureIsNotCoveredWitness ==
    /\ phase = "panicked" /\ ops = 3
    /\ last.op = "reseed_from_os_rng" /\ ~last.arg.ok
    /\ Len(queue) = 1 /\ queue[1].op = "insert_seed" /\ queue[1].arg \in EntropySeeds

\* The plugin's build has returned and no system has run yet.
BuildReturned == phase = "step" /\ ops = 0

\* C24: before the build there is no Global entity; when the build of a
\* plugin configured with seed s has returned, exactly one entity is Global,
\* its RngSeed is s, its Entropy is from_seed(s), and no command is waiting.
BuildMakesSeededGlobal ==
    /\ phase = "init" => isGlobal = {}
    /\ (BuildReturned /\ plugin # NoSeed) =>
        /\ Cardinality(isGlobal) = 1
        /\ \A g \in isGlobal :
            /\ Alive(World, g)
            /\ seed[g] = RngSeed(plugin)
            /\ rng[g] = from_seed(plugin)
        /\ \A e \in Entity \ isGlobal : ~HasSeed(World, e) /\ ~HasRng(World, e)
        /\ queue = <<>>

BuildMakesSeededGlobalWitness ==
    /\ BuildReturned /\ plugin = <<2>>
    /\ last.op = "insert_entropy"
    /\ \E g \in isGlobal : rng[g] = from_seed(<<2>>) /\ seed[g] = <<2>>

CascadeStarted ==
    /\ phase = "flush" /\ flushed = 1 /\ Len(queue) = 1
    /\ last.op \in {"reseed", "reseed_linked"}
    /\ queue[1].op \in {"insert_seed", "SeedLinked"}

\* C26: whatever edges the link operations have built, the cascade started
\* by one seed insertion or one SeedLinked signal ends: the queue becomes
\* empty, unless it outgrows MaxPending first.
CascadeTerminates == CascadeStarted ~> (queue = <<>> \/ Len(queue) > MaxPending)

\* C27: in a step a request only appends its command to the queue: no seed,
\* Entropy or edge changes when it is made, so a draw made after the request
\* and before the flush reads the Entropy as it was before the request,
\* and advances it by the one value it takes.
SignalsAreDeferred ==
    [][(phase = "step" /\ phase' = "step") =>
        /\ seed' = seed /\ source' = source /\ links' = links
        /\ queue' = queue \/ /\ rng' = rng
                              /\ Len(queue') = Len(queue) + 1
                              /\ SubSeq(queue', 1, Len(queue)) = queue
        /\ \A e \in Entity :
            \/ rng'[e] = rng[e] /\ out'[e] = out[e]
            \/ /\ queue' = queue
               /\ HasRng(World, e) /\ rng[e].seed = seed[e]
               /\ rng'[e] = Advance(rng[e], U64Bytes)
               /\ out'[e] = Append(out[e], Bytes(rng[e], U64Bytes))]_vars

\* A draw from a source made while its SeedLinked signal waits in the queue.
SignalsAreDeferredWitness ==
    /\ phase = "step" /\ last.op = "draw"
    /\ HasLinks(World, last.e)
    /\ \E i \in 1..Len(queue) : queue[i] = Cmd("SeedLinked", last.e, NoSeed)
    /\ out[last.e] = <<Bytes(from_seed(seed[last.e]), U64Bytes)>>
    /\ \A t \in Entity : source[t] = last.e => ~HasSeed(World, t)

\* C28: when a flush of one command has ended, every source reseeded in it
\* that has a source of its own has handed each of its targets the seed forked
\* for it, in link order, from the Entropy its new seed created, starting at
\* position zero; the source's Entropy is that Entropy advanced by one seed
\* width per target.
SubtreeReseededFromNewEntropy ==
    (FlushEnded /\ flushed = 1) =>
        \A m \in reseeded :
            (HasSeed(World, m) /\ HasLinks(World, m) /\ source[m] # NoEntity) =>
                /\ \A i \in 1..Len(links[m]) :
                    /\ HasSeed(World, links[m][i])
                    /\ seed[links[m][i]] = SeedsForLinks(m)[i][2]
                /\ rng[m] = ForkEach(from_seed(seed[m]), links[m]).rng

\* The chain r -> m -> g after a SeedLinked on r: m and g were reseeded in
\* the one flush, m from r's stream past its first fork and g from position
\* zero of m's new seed.
SubtreeReseededFromNewEntropyWitness ==
    /\ FlushEnded /\ flushed = 1
    /\ \E r, m, g \in Entity :
        /\ source[r] = NoEntity /\ source[m] = r /\ source[g] = m
        /\ {m, g} \subseteq reseeded
        /\ seed[m] = Bytes(Advance(from_seed(seed[r]), 2 * SeedBytes("WyRand")), SeedBytes("WyRand"))
        /\ seed[g] = fork_seed(from_seed(seed[m])).val
        /\ rng[m] = fork_seed(from_seed(seed[m])).rng

\* C29: SeedFromSource forks the target's seed at the position the source's
\* Entropy has reached and advances the source by one seed width; neither
\* this nor the insertion of that seed changes the seed of another target of
\* the source. The position an Entropy has reached never moves back: it
\* changes only forwards, by what is forked or drawn, until the Entropy itself
\* is replaced or removed. So the seed is the next one of the source's stream.
SeedFromSourceContinuesStream ==
    [][/\ (Applying("SeedFromSource") /\ source[Head(queue).e] # NoEntity
             /\ HasRng(World, source[Head(queue).e])) =>
            LET t == Head(queue).e
                p == source[t]
            IN  /\ Head(queue').op = "insert_seed" /\ Head(queue').e = t
                /\ Head(queue').arg = <<rng[p].seed, rng[p].pos, SeedBytes("WyRand")>>
                /\ rng'[p].seed = rng[p].seed
                /\ rng'[p].pos = rng[p].pos + SeedBytes("WyRand")
                /\ \A x \in Entity : source[x] = p => seed'[x] = seed[x]
       /\ (Applying("insert_seed") /\ source[Head(queue).e] # NoEntity) =>
            \A x \in Entity \ {Head(queue).e} :
                source[x] = source[Head(queue).e] => seed'[x] = seed[x]
       /\ \A p \in Entity : (HasRng(World, p) /\ rng'[p] # rng[p]) =>
            \/ Applying("insert_entropy") /\ Head(queue).e = p
            \/ Applying("remove_entropy") /\ Head(queue).e = p /\ rng'[p] = NoRng
            \/ rng'[p] # NoRng /\ rng'[p].seed = rng[p].seed /\ rng'[p].pos > rng[p].pos
      ]_vars

\* Source p seeded its two targets and then one of them pulled again: it holds
\* the third seed of p's stream, the other one still the second.
SeedFromSourceContinuesStreamWitness ==
    /\ FlushEnded /\ flushed = 1 /\ last.op = "insert_entropy"
    /\ \E p, t, x \in Entity :
        /\ t = last.e /\ x # t /\ source[t] = p /\ source[x] = p
        /\ seed[t] = Bytes(Advance(from_seed(seed[p]), 2 * SeedBytes("WyRand")), SeedBytes("WyRand"))
        /\ seed[x] = Bytes(Advance(from_seed(seed[p]), SeedBytes("WyRand")), SeedBytes("WyRand"))
        /\ rng[p] = Advance(from_seed(seed[p]), 3 * SeedBytes("WyRand"))

\* The SeedLinked signals i and j of source e, i before j, found the same
\* targets.
Repeated(e, i, j) ==
    /\ i < j
    /\ out[e][i].op = "SeedLinked" /\ out[e][j].op = "SeedLinked"
    /\ out[e][i].ts = out[e][j].ts

\* The Entropy of e was neither inserted nor removed between events i and j.
SameEntropy(e, i, j) ==
    \A k \in i..j : out[e][k].op \notin {"insert_entropy", "remove_entropy"}

\* No seed assigned by signal j of e was assigned by signal i.
FreshSeeds(e, i, j) ==
    \A a \in 1..Len(out[e][i].seeds) : \A b \in 1..Len(out[e][j].seeds) :
        out[e][j].seeds[b] # out[e][i].seeds[a]

\* C30 as stated: a later SeedLinked on the same source with the same targets
\* assigns no seed that the earlier one assigned.
SecondSeedLinkedIsFresh ==
    \A e \in Entity : \A i, j \in 1..Len(out[e]) :
        Repeated(e, i, j) => FreshSeeds(e, i, j)

\* C30 amended: a later SeedLinked on the same source with the same targets,
\* the source's Entropy neither replaced nor removed in between, assigns no
\* seed that the earlier one assigned; and once its batch is applied every
\* target holds its seed of the later signal, different from every seed the
\* earlier one assigned.
SecondSeedLinkedIsFreshOnSameEntropy ==
    /\ \A e \in Entity : \A i, j \in 1..Len(out[e]) :
        (Repeated(e, i, j) /\ SameEntropy(e, i, j)) => FreshSeeds(e, i, j)
    /\ last.op = "insert_batch" =>
        \A k \in 1..Len(last.arg) :
            Alive(World, last.arg[k][1]) =>
                /\ seed[last.arg[k][1]] = last.arg[k][2]
                /\ out[last.e][Len(out[last.e])].seeds[k] = last.arg[k][2]
                /\ \A i \in 1..Len(out[last.e]) :
                    (Repeated(last.e, i, Len(out[last.e]))
                        /\ SameEntropy(last.e, i, Len(out[last.e]))) =>
                        \A a \in 1..Len(out[last.e][i].seeds) :
                            seed[last.arg[k][1]] # out[last.e][i].seeds[a]

\* Two SeedLinked in a row on a source with two targets; the targets hold the
\* seeds of the second, the flush is over.
SecondSeedLinkedIsFreshOnSameEntropyWitness ==
    /\ FlushPoint
    /\ \E e \in Entity : \E i \in 1..Len(out[e]) :
        /\ i + 1 = Len(out[e]) /\ Repeated(e, i, i + 1)
        /\ Len(links[e]) = 2 /\ links[e] = out[e][i].ts
        /\ \A k \in 1..2 : seed[links[e][k]] = out[e][i + 1].seeds[k]

\* The step draws from e, forks from e or reseeds e: the plugin is built on e,
\* a system draws from e, or the command applied inserts or removes e's
\* RngSeed or Entropy, writes e a seed of a batch, or is a reseed signal that
\* forks from e's Entropy.
Touched(e) ==
    \/ phase = "init" /\ e = 1
    \/ /\ phase = "step" /\ ops' # ops
       /\ \/ last'.op = "draw" /\ last'.e = e
          \/ last'.op = "draw_both" /\ e \in {last'.e, last'.arg}
    \/ /\ phase = "flush" /\ queue # <<>>
       /\ LET c == Head(queue)
          IN  \/ /\ c.op \in {"insert_seed", "remove_seed", "insert_entropy", "remove_entropy"}
                 /\ c.e = e
              \/ c.op = "insert_batch" /\ \E i \in 1..Len(c.arg) : c.arg[i][1] = e
              \/ c.op = "SeedLinked" /\ c.e = e
              \/ c.op = "SeedFromSource" /\ source[c.e] = e
              \/ c.op = "SeedFromGlobal" /\ e \in GlobalSources(World)

\* C31: a step in which nothing draws from, forks from or reseeds an entity
\* leaves that entity's Entropy and RngSeed as they were; so the global source
\* built from the plugin's seed still equals from_seed of that seed after
\* such a step.
EntropyChangesOnlyWhenTouched ==
    [][\A e \in Entity :
        ~Touched(e) =>
            /\ rng'[e] = rng[e] /\ seed'[e] = seed[e]
            /\ (e \in isGlobal /\ plugin # NoSeed /\ rng[e] = from_seed(plugin))
                => (e \in isGlobal' /\ rng'[e] = from_seed(plugin))]_vars

\* The global source was built from the plugin's seed; an update has since
\* linked, reseeded and flushed other entities, and the global Entropy still
\* equals from_seed of the plugin's seed.
EntropyChangesOnlyWhenTouchedWitness ==
    /\ FlushPoint /\ ops >= 2
    /\ plugin # NoSeed /\ isGlobal = {1} /\ rng[1] = from_seed(plugin)
    /\ last.op = "insert_entropy" /\ last.e # 1 /\ HasRng(World, last.e)
    /\ \E e \in Entity : links[e] # <<>>

\* An exclusive system has just called the fork operation op on the world.
WorldForked(op) == ops' = ops + 1 /\ last'.op = op /\ op \in WorldForkOps

\* The kind of the Global source a fork operation of the world asks for.
SourceKind(c) == IF c.op \in {"fork_as", "fork_as_seed"} THEN c.arg.S ELSE c.arg.T

\* C33: a fork operation on the world returns an error and changes nothing
\* when no entity holds both the Global marker and an Entropy of the source
\* kind asked for; when exactly one does, it returns the fork of that
\* entity's Entropy (a generator for fork_rng, fork_as and fork_inner, a seed
\* for fork_seed, fork_as_seed and fork_inner_seed) and that Entropy has
\* advanced by the bytes of one seed, nothing else having changed.
WorldForkNeedsGlobalSource ==
    [][\A op \in WorldForkOps : WorldForked(op) =>
        LET found == IF SourceKind(last') = "WyRand"
                     THEN {g \in isGlobal : HasRng(World, g)} ELSE {}
            width == SeedBytes(IF op \in {"fork_rng", "fork_as", "fork_seed", "fork_as_seed"}
                               THEN last'.arg.T ELSE "WyRand")
        IN  /\ found = {} =>
                /\ ~last'.arg.ok /\ last'.arg.val = "NoEntities"
                /\ UNCHANGED <<seed, rng, source, links, isGlobal, life, queue, out>>
            /\ Cardinality(found) = 1 =>
                \A g \in found :
                    /\ last'.arg.ok
                    /\ last'.arg.val =
                        IF op \in {"fork_rng", "fork_as", "fork_inner"}
                        THEN from_seed(Bytes(rng[g], width))
                        ELSE Bytes(rng[g], width)
                    /\ rng' = [rng EXCEPT ![g] = Advance(rng[g], width)]
                    /\ UNCHANGED <<seed, source, links, isGlobal, life, queue, out>>]_vars

\* A fork on a world with one Global source, next to an entity that holds an
\* Entropy without the marker, has answered with the first value of the
\* Global source's stream, which has moved on.
WorldForkNeedsGlobalSourceWitness ==
    /\ last.op \in WorldForkOps /\ last.arg.ok
    /\ isGlobal = {1} /\ HasRng(World, 1) /\ rng[1].pos > 0
    /\ \E e \in Entity \ {1} : HasRng(World, e)
    /\ last.arg.val \in {Bytes(from_seed(seed[1]), 8), from_seed(Bytes(from_seed(seed[1]), 8))}

\* SeedFromGlobal is about to be applied for a live target while several
\* entities hold the Global marker and an Entropy.
SeveralGlobals ==
    /\ Applying("SeedFromGlobal") /\ Alive(World, Head(queue).e)
    /\ Cardinality(GlobalSources(World)) > 1

TryOps == {"try_reseed_from_os_rng", "try_reseed_from_local_entropy"}

\* C35: when try_reseed_from_os_rng or try_reseed_from_local_entropy gets no
\* entropy, the call queues nothing, writes nothing and does not end the app:
\* the queue the next flush applies is the queue there was before the call,
\* and the entity's RngSeed and Entropy are what they were. No seed insertion
\* is ever queued with a seed that was not filled.
FailedTryQueuesNothing ==
    [][/\ (ops' = ops + 1 /\ last'.op \in TryOps /\ ~last'.arg.ok) =>
            /\ queue' = queue
            /\ UNCHANGED <<seed, rng, source, links, isGlobal, life, out, drawn, local>>
            /\ phase' = phase
       /\ \A i \in 1..Len(queue') :
            queue'[i].op = "insert_seed" => queue'[i].arg \notin {NoSeed, ZeroSeed}
      ]_vars

\* Both calls have failed on the Global entity in one step with nothing else
\* queued: there is nothing for a flush to apply, and the entity holds the
\* plugin's seed and the Entropy built from it.
FailedTryQueuesNothingWitness ==
    /\ phase = "step" /\ ops = 2 /\ queue = <<>>
    /\ last.op = "try_reseed_from_local_entropy" /\ ~last.arg.ok /\ last.e = 1
    /\ plugin # NoSeed /\ seed[1] = RngSeed(plugin) /\ rng[1] = from_seed(plugin)
    /\ \A th \in Thread : local[th].cache = NoRng

\* C32: applying the removal of a target's RngSource takes that target out of
\* its source's RngLinks and nothing else: the other targets of that source
\* keep their places, every other source keeps its targets, every other
\* target keeps its source, no RngSeed and no Entropy changes (the unlinked
\* target's included) and no command is queued.
UnlinkRemovesOnePair ==
    [][(Applying("remove_source") /\ Alive(World, Head(queue).e)
            /\ source[Head(queue).e] # NoEntity /\ Alive(World, source[Head(queue).e])) =>
        LET t == Head(queue).e
            p == source[t]
        IN  /\ source' = [source EXCEPT ![t] = NoEntity]
            /\ links' = [links EXCEPT ![p] = SelectSeq(links[p], LAMBDA x : x # t)]
            /\ \A x \in Entity \ {t} : Occurrences(links'[p], x) = Occurrences(links[p], x)
            /\ UNCHANGED <<seed, rng, isGlobal, life, out, drawn>>
            /\ queue' = Tail(queue)]_vars

\* A source had two seeded targets and one of them was unlinked: at the end
\* of the flush the other is still linked, and both hold their seeds and the
\* generators built from them.
UnlinkRemovesOnePairWitness ==
    /\ FlushPoint /\ last.op = "remove_source" /\ last.arg = NoEntity
    /\ source[last.e] = NoEntity /\ HasSeed(World, last.e)
    /\ rng[last.e] = from_seed(seed[last.e])
    /\ \E p, x \in Entity :
        /\ x # last.e /\ links[p] = <<x>> /\ source[x] = p
        /\ HasSeed(World, x) /\ rng[x] = from_seed(seed[x])
        /\ seed[x][1] = seed[last.e][1] /\ seed[x] # seed[last.e]

\* The entities a batch of seeds is addressed to, in order.
BatchTargets(batch) == [i \in 1..Len(batch) |-> batch[i][1]]

\* C36: SeedLinked seeds the targets its source has when the signal is
\* applied: the batch it queues is addressed to the source's RngLinks of that
\* moment, and when the batch is applied right after, it is still addressed
\* to exactly the targets linked then, writes each of them its seed and
\* writes to no entity that is not linked to the source, whatever was linked,
\* unlinked, spawned or despawned between the request and the flush.
SeedLinkedSeedsCurrentTargets ==
    [][/\ SeedLinkedStep =>
            /\ queue' # <<>> /\ Head(queue').op = "insert_batch"
            /\ Head(queue').e = Head(queue).e
            /\ BatchTargets(Head(queue').arg) = links[Head(queue).e]
       /\ Applying("insert_batch") =>
            LET c == Head(queue)
            IN  /\ BatchTargets(c.arg) = links[c.e]
                /\ \A i \in 1..Len(c.arg) :
                    Alive(World, c.arg[i][1]) => seed'[c.arg[i][1]] = c.arg[i][2]
                /\ \A x \in Entity :
                    Occurrences(links[c.e], x) = 0 => (seed'[x] = seed[x] /\ rng'[x] = rng[x])
      ]_vars

\* One flush applied an unlink and then SeedLinked, both queued in the same
\* step: the target that was linked when reseed_linked was called and
\* unlinked before the signal was applied keeps the seed it had, the target
\* still linked holds a new one, and the source has forked once.
SeedLinkedSeedsCurrentTargetsWitness ==
    /\ FlushPoint /\ flushed = 2 /\ last.op = "insert_entropy"
    /\ \E p, t, x \in Entity :
        /\ links[p] = <<x>> /\ source[t] = NoEntity /\ t # x
        /\ seed[t] = Bytes(from_seed(seed[p]), 8)
        /\ seed[x] = Bytes(Advance(from_seed(seed[p]), 16), 8)
        /\ rng[p] = Advance(from_seed(seed[p]), 24)

\* C37: when a flush of the commands of with_target_rngs on a source that
\* holds an Entropy has ended, every target of that source, those linked
\* before as well as those just spawned, holds a seed forked in that flush:
\* the i-th of the N targets holds the N seed widths last taken from the
\* source's stream, in order, and the Entropy built from its seed; the seeds
\* replaced in that flush are those of targets of the source.
SpawnReseedsEveryTarget ==
    SpawnFlushEnded =>
        \A p \in spawned :
            LET e == p[2]
                n == Len(links[e])
                w == SeedBytes("WyRand")
            IN  (Alive(World, e) /\ HasRng(World, e)) =>
                    /\ rng[e].pos >= n * w
                    /\ \A i \in 1..n :
                        /\ seed[links[e][i]] = Bytes(Advance(rng[e], 0 - (n - i + 1) * w), w)
                        /\ HasRng(World, links[e][i])
                        /\ rng[links[e][i]].seed = seed[links[e][i]]
                        /\ ~HasLinks(World, links[e][i]) =>
                            rng[links[e][i]] = from_seed(seed[links[e][i]])
                    /\ \A x \in reseeded : Occurrences(links[e], x) = 1

\* with_target_rngs spawned one target on a source that already had a seeded
\* target: after the flush the old target holds a seed later in the source's
\* stream than the one it was first given, the new target the one after it.
SpawnReseedsEveryTargetWitness ==
    /\ SpawnFlushEnded /\ Cardinality(spawned) = 1
    /\ \E p \in spawned : \E old \in Entity :
        /\ links[p[2]] = <<old, p[1]>> /\ old \in reseeded
        /\ seed[old] = Bytes(Advance(from_seed(seed[p[2]]), 8), 8)
        /\ seed[p[1]] = Bytes(Advance(from_seed(seed[p[2]]), 16), 8)
        /\ rng[p[2]] = Advance(from_seed(seed[p[2]]), 24)

\* The edges of the graph: the pairs of a source and an entity of its
\* RngLinks.
Edges == {<<s, t>> \in Entity \X Entity : Occurrences(links[s], t) > 0}

\* link_target_rngs is about to be applied on a live source for targets some
\* of which it already has.
Relinking ==
    /\ Applying("add_related") /\ Alive(World, Head(queue).e)
    /\ \E i \in 1..Len(Head(queue).arg) : source[Head(queue).arg[i]] = Head(queue).e

\* C38: linking a target to the source it is already linked to leaves it in
\* the source's RngLinks exactly once and adds no edge for it (when every
\* listed target was already linked to the source the edges are the same
\* after as before); so a SeedLinked on the source forks one seed for that
\* target, and its batch queues one Entropy for it.
RelinkKeepsOneEdge ==
    [][/\ Relinking =>
            LET e == Head(queue).e
                ts == Head(queue).arg
            IN  /\ \A i \in 1..Len(ts) :
                    source[ts[i]] = e =>
                        /\ Occurrences(links'[e], ts[i]) = 1
                        /\ source'[ts[i]] = e
                /\ Edges' = {x \in Edges : \A i \in 1..Len(ts) : x[2] # ts[i]}
                                \cup {<<e, ts[i]>> : i \in 1..Len(ts)}
                /\ (\A i \in 1..Len(ts) : source[ts[i]] = e) => Edges' = Edges
                /\ Len(links'[e]) = Cardinality({x \in Edges' : x[1] = e})
                /\ UNCHANGED <<seed, rng>>
       /\ SeedLinkedStep =>
            LET e == Head(queue).e
                b == Head(queue').arg
            IN  /\ \A t \in Entity :
                    Cardinality({i \in 1..Len(b) : b[i][1] = t})
                        = (IF source[t] = e THEN 1 ELSE 0)
                /\ rng'[e] = Advance(rng[e], SeedBytes("WyRand") * Cardinality({t \in Entity : source[t] = e}))
       /\ InsertBatchStep =>
            \A t \in Entity :
                Cardinality({i \in 1..Len(queue') : queue'[i].op = "insert_entropy" /\ queue'[i].e = t})
                    - Cardinality({i \in 1..Len(queue) : queue[i].op = "insert_entropy" /\ queue[i].e = t})
                    = Cardinality({i \in 1..Len(Head(queue).arg) :
                        Head(queue).arg[i][1] = t /\ Alive(World, t)})
      ]_vars

\* link_target_rngs was applied on a source for the one target it already
\* had, and then SeedLinked: the source has that target once, the signal has
\* forked one seed, which the target holds, and the source has moved on by
\* one seed width.
RelinkKeepsOneEdgeWitness ==
    /\ FlushPoint
    /\ \E e, t \in Entity : \E i \in 1..Len(out[e]) :
        /\ i + 1 = Len(out[e])
        /\ out[e][i].op = "add_related"
        /\ out[e][i].ts = <<t>> /\ out[e][i].listed = <<t>>
        /\ out[e][i + 1].op = "SeedLinked"
        /\ out[e][i + 1].ts = <<t>> /\ Len(out[e][i + 1].seeds) = 1
        /\ links[e] = <<t>> /\ Edges = {<<e, t>>}
        /\ seed[t] = out[e][i + 1].seeds[1]
        /\ seed[t] = Bytes(from_seed(seed[e]), SeedBytes("WyRand"))
        /\ rng[e] = Advance(from_seed(seed[e]), SeedBytes("WyRand"))

=============================================================================
